---- MODULE Spec2Model ----
(***************************************************************************)
(* A model of scan-chart's chart core: the shared normalisation pipeline   *)
(* of parseChartFile (src/chart/notes-parser.ts) applied to the raw track  *)
(* events produced by the .chart and .mid parsers, and the track           *)
(* serialisation of calculateTrackHash (src/chart/track-hasher.ts).        *)
(*                                                                         *)
(* One track (one instrument, one difficulty) of one chart is modelled.    *)
(* The chart's content is drawn in Init; parseChartFile,                   *)
(* calculateTrackHash and scanChart (src/chart/chart-scanner.ts) are the   *)
(* actions.                                                                *)
(***************************************************************************)
EXTENDS Integers, Sequences, FiniteSets, TLC

VARIABLES
    pc,                 \* "file" -> "parsed" -> "hashed", or "error" when parsing throws;
                        \* "file" -> "scanned" when scanChart returned
    fileNames,          \* the names of the files of the chart folder, in the order given
    midiFile,           \* the container of a decoded .mid file: [header, tracks, sysEx]
    format,             \* "chart" | "mid"
    instrument,         \* the track's instrument
    sectionDifficulty,  \* and its difficulty
    midiTracks,         \* the instrument tracks of a .mid file that is written out in
                        \* MIDI events: [trackName, trackEvents]; <<>> when the file
                        \* holds the one track that `lines` describes
    chartTicksPerBeat,  \* the chart's resolution
    iniChartModifiers,  \* the song.ini modifiers handed to parseChartFile
    lines,              \* the track's events in file order: [tick, length, type]
    syncTempos,         \* the file's tempo markers in file order: [tick, millibeatsPerMinute]
    syncTimeSignatures, \* the file's time signatures in file order: [tick, numerator, denominatorExp]
    eventLines,         \* the file's global events in file order: [tick, text]
    parsed,             \* the ParsedChart parseChartFile returned (NoChart before)
    fretTrace,          \* per fret note group, what resolveFretModifiers decided
    btrack,             \* the bytes calculateTrackHash serialised (<<>> before)
    scan                \* what scanChart returned (NoScan before)

vars == <<pc, fileNames, midiFile, format, instrument, sectionDifficulty, midiTracks,
          chartTicksPerBeat, iniChartModifiers, lines, syncTempos, syncTimeSignatures, eventLines, parsed, fretTrace, btrack, scan>>

inputVars == <<fileNames, midiFile, format, instrument, sectionDifficulty, midiTracks,
               chartTicksPerBeat, iniChartModifiers, lines, syncTempos, syncTimeSignatures, eventLines>>

-----------------------------------------------------------------------------
(* Enumerations of note-parsing-interfaces.ts                              *)

eventTypes ==
    [ starPower |-> 0, soloSection |-> 1, rejectedStarPower |-> 2,
      soloSectionStart |-> 3, soloSectionEnd |-> 4,
      open |-> 5, green |-> 6, red |-> 7, yellow |-> 8, blue |-> 9, orange |-> 10,
      black1 |-> 11, black2 |-> 12, black3 |-> 13,
      white1 |-> 14, white2 |-> 15, white3 |-> 16,
      kick |-> 17, kick2x |-> 18, redDrum |-> 19, yellowDrum |-> 20, blueDrum |-> 21,
      fiveOrangeFourGreenDrum |-> 22, fiveGreenDrum |-> 23,
      flexLaneSingle |-> 24, flexLaneDouble |-> 25, freestyleSection |-> 26,
      forceOpen |-> 27, forceTap |-> 28, forceStrum |-> 29, forceHopo |-> 30,
      forceUnnatural |-> 31, forceFlam |-> 32,
      yellowTomMarker |-> 33, blueTomMarker |-> 34, greenTomMarker |-> 35,
      yellowCymbalMarker |-> 36, blueCymbalMarker |-> 37, greenCymbalMarker |-> 38,
      redGhost |-> 39, yellowGhost |-> 40, blueGhost |-> 41,
      fiveOrangeFourGreenGhost |-> 42, fiveGreenGhost |-> 43, kickGhost |-> 44,
      redAccent |-> 45, yellowAccent |-> 46, blueAccent |-> 47,
      fiveOrangeFourGreenAccent |-> 48, fiveGreenAccent |-> 49, kickAccent |-> 50,
      discoFlipOff |-> 51, discoFlipOn |-> 52, discoNoFlipOn |-> 53,
      enableChartDynamics |-> 54 ]

noteTypes ==
    [ open |-> 1, green |-> 2, red |-> 3, yellow |-> 4, blue |-> 5, orange |-> 6,
      black1 |-> 7, black2 |-> 8, black3 |-> 9,
      white1 |-> 10, white2 |-> 11, white3 |-> 12,
      kick |-> 13, redDrum |-> 14, yellowDrum |-> 15, blueDrum |-> 16, greenDrum |-> 17 ]

noteFlags ==
    [ none |-> 0, strum |-> 1, hopo |-> 2, tap |-> 4, doubleKick |-> 8, tom |-> 16,
      cymbal |-> 32, discoNoflip |-> 64, disco |-> 128, flam |-> 256, ghost |-> 512,
      accent |-> 1024 ]

defaultIniChartModifiers ==
    [ song_length |-> 0, hopo_frequency |-> 0, eighthnote_hopo |-> FALSE,
      multiplier_note |-> 0, sustain_cutoff_threshold |-> -1,
      chord_snap_threshold |-> 0, five_lane_drums |-> FALSE, pro_drums |-> FALSE ]

-----------------------------------------------------------------------------
(* Array helpers                                                           *)

Range(s) == { s[i] : i \in DOMAIN s }

Max(a, b) == IF a >= b THEN a ELSE b

\* Array.prototype.sort / _.sortBy / _.orderBy: a stable sort. Before(a, b)
\* holds when the comparator puts a strictly before b.
StableSort(s, Before(_, _)) ==
    LET n == Len(s)
        rank(i) == Cardinality({ j \in 1..n :
                        \/ Before(s[j], s[i])
                        \/ (~Before(s[i], s[j]) /\ j < i) })
        sorted == [ k \in 1..n |-> s[CHOOSE i \in 1..n : rank(i) = k - 1] ]
    IN  SubSeq(sorted, 1, n)

\* The elements of a set of integers in ascending order.
Ascending(S) ==
    [ k \in 1..Cardinality(S) |->
        CHOOSE x \in S : Cardinality({ y \in S : y < x }) = k - 1 ]

\* _.flatten of an array of arrays.
RECURSIVE Flatten(_)
Flatten(groups) ==
    IF groups = <<>> THEN <<>> ELSE Head(groups) \o Flatten(Tail(groups))

\* _.pullAt(array, i), with indices from 1
pullAt(array, i) == SubSeq(array, 1, i - 1) \o SubSeq(array, i + 1, Len(array))

\* Array.prototype.reverse
Reverse(s) == [ k \in 1..Len(s) |-> s[Len(s) + 1 - k] ]

-----------------------------------------------------------------------------
(* Timing engine (notes-parser.ts)                                         *)

\* ((ticks) * 1000 * 60000) / (millibeatsPerMinute * chartTicksPerBeat).
\* The charts of this model only use tempos and resolutions for which the
\* quotient 60000000 / (millibeatsPerMinute * chartTicksPerBeat) is a whole
\* number, so that the double-precision result of the source is exact.
MsDelta(ticks, millibeatsPerMinute, ticksPerBeat) ==
    ticks * (60000000 \div (millibeatsPerMinute * ticksPerBeat))

ExactTempo(millibeatsPerMinute, ticksPerBeat) ==
    /\ millibeatsPerMinute * ticksPerBeat > 0
    /\ 60000000 % (millibeatsPerMinute * ticksPerBeat) = 0

RECURSIVE TimedTemposFrom(_, _, _)
TimedTemposFrom(tempos, newTempos, ticksPerBeat) ==
    IF tempos = <<>> THEN newTempos
    ELSE LET tempo == Head(tempos)
             lastTempo == newTempos[Len(newTempos)]
             newTempo == [ tick |-> tempo.tick,
                           millibeatsPerMinute |-> tempo.millibeatsPerMinute,
                           msTime |-> lastTempo.msTime
                                      + MsDelta(tempo.tick - lastTempo.tick,
                                                lastTempo.millibeatsPerMinute, ticksPerBeat) ]
         IN  TimedTemposFrom(Tail(tempos), Append(newTempos, newTempo), ticksPerBeat)

getTimedTempos(tempos, ticksPerBeat) ==
    LET newTempos == TimedTemposFrom(tempos,
                        << [tick |-> 0, millibeatsPerMinute |-> 120000, msTime |-> 0] >>,
                        ticksPerBeat)
    IN  IF Len(newTempos) >= 2 /\ newTempos[2].tick = 0 THEN Tail(newTempos) ELSE newTempos

\* The two while loops of processNextEvent: the last tempo at or before `tick`,
\* searched forward from `index` only.
RECURSIVE AdvanceTempoIndex(_, _, _)
AdvanceTempoIndex(tempos, index, tick) ==
    IF index + 1 <= Len(tempos) /\ tempos[index + 1].tick <= tick
    THEN AdvanceTempoIndex(tempos, index + 1, tick)
    ELSE index

EventLength(event) == IF "length" \in DOMAIN event THEN event.length ELSE 0

\* processNextEvent: the event with msTime and msLength set, and the new
\* value of lastTempoIndex.
processNextEvent(event, tempos, lastTempoIndex, ticksPerBeat) ==
    LET index == AdvanceTempoIndex(tempos, lastTempoIndex, event.tick)
        lastTempo == tempos[index]
        msTime == lastTempo.msTime
                  + MsDelta(event.tick - lastTempo.tick, lastTempo.millibeatsPerMinute, ticksPerBeat)
        endIndex == AdvanceTempoIndex(tempos, index, event.tick + EventLength(event))
        endTempo == tempos[endIndex]
        msLength == IF EventLength(event) # 0
                    THEN endTempo.msTime - msTime
                         + MsDelta(event.tick + event.length - endTempo.tick,
                                   endTempo.millibeatsPerMinute, ticksPerBeat)
                    ELSE 0
    IN  [ event |-> [msTime |-> msTime, msLength |-> msLength] @@ event,
          lastTempoIndex |-> index ]

RECURSIVE SetMsTimesFrom(_, _, _, _)
SetMsTimesFrom(events, tempos, lastTempoIndex, ticksPerBeat) ==
    IF events = <<>> THEN <<>>
    ELSE LET r == processNextEvent(Head(events), tempos, lastTempoIndex, ticksPerBeat)
         IN  <<r.event>> \o SetMsTimesFrom(Tail(events), tempos, r.lastTempoIndex, ticksPerBeat)

setEventMsTimes(events, tempos, ticksPerBeat) ==
    SetMsTimesFrom(events, tempos, 1, ticksPerBeat)

\* The groups of `groups`, filled in order from the flat list `flat`.
RECURSIVE Regroup(_, _)
Regroup(groups, flat) ==
    IF groups = <<>> THEN <<>>
    ELSE << SubSeq(flat, 1, Len(Head(groups))) >>
         \o Regroup(Tail(groups), SubSeq(flat, Len(Head(groups)) + 1, Len(flat)))

\* One lastTempoIndex runs over the notes of all groups in order.
setEventGroupMsTimes(groups, tempos, ticksPerBeat) ==
    Regroup(groups, SetMsTimesFrom(Flatten(groups), tempos, 1, ticksPerBeat))

-----------------------------------------------------------------------------
(* Sustain cutoff and grouping (notes-parser.ts)                           *)

\* trimSustains cutting only the sustains strictly shorter than the threshold.
trimSustainsStrictlyShorter(trackEvents, sustain_cutoff_threshold, ticksPerBeat, fmt) ==
    LET sustainThresholdTicks ==
            IF sustain_cutoff_threshold # -1 THEN sustain_cutoff_threshold
            ELSE IF fmt = "mid" THEN (ticksPerBeat \div 3) + 1
            ELSE 0
    IN  [ i \in DOMAIN trackEvents |->
            IF trackEvents[i].length < sustainThresholdTicks
            THEN [trackEvents[i] EXCEPT !.length = 0]
            ELSE trackEvents[i] ]

trimSustains(trackEvents, sustain_cutoff_threshold, ticksPerBeat, fmt) ==
    LET sustainThresholdTicks ==
            IF sustain_cutoff_threshold # -1 THEN sustain_cutoff_threshold
            ELSE IF fmt = "mid" THEN (ticksPerBeat \div 3) + 1
            ELSE 0
    IN  IF sustainThresholdTicks > 0
        THEN [ i \in DOMAIN trackEvents |->
                 IF trackEvents[i].length <= sustainThresholdTicks
                 THEN [trackEvents[i] EXCEPT !.length = 0]
                 ELSE trackEvents[i] ]
        ELSE trackEvents

\* _.groupBy(note => note.tick) followed by _.values(): the keys of the
\* grouping object are integer-like, which JavaScript enumerates in ascending
\* numeric order; each group keeps its events in their order of appearance.
GroupByTick(events) ==
    LET ticks == Ascending({ e.tick : e \in Range(events) })
    IN  [ k \in DOMAIN ticks |-> SelectSeq(events, LAMBDA e : e.tick = ticks[k]) ]

-----------------------------------------------------------------------------
(* Fret modifier resolution (notes-parser.ts)                              *)

isFretNote(type) ==
    type \in { eventTypes.open, eventTypes.green, eventTypes.red, eventTypes.yellow,
               eventTypes.blue, eventTypes.orange, eventTypes.black3, eventTypes.black2,
               eventTypes.black1, eventTypes.white3, eventTypes.white2, eventTypes.white1 }

FretNotes(events) == SelectSeq(events, LAMBDA e : isFretNote(e.type))

isSameFretNote(note1, note2) ==
    \A i \in DOMAIN note1 : \A j \in DOMAIN note2 :
        (isFretNote(note1[i].type) /\ isFretNote(note2[j].type))
            => note1[i].type = note2[j].type

isFretChord(note) ==
    \E i, j \in DOMAIN note :
        /\ isFretNote(note[i].type) /\ isFretNote(note[j].type)
        /\ note[i].type # note[j].type

isInFretNote(inNote, outerNote) ==
    { e.type : e \in Range(FretNotes(inNote)) }
        \subseteq { e.type : e \in Range(FretNotes(outerNote)) }

getFretNoteTypeFromEventType(eventType) ==
    CASE eventType = eventTypes.open   -> noteTypes.open
      [] eventType = eventTypes.green  -> noteTypes.green
      [] eventType = eventTypes.red    -> noteTypes.red
      [] eventType = eventTypes.yellow -> noteTypes.yellow
      [] eventType = eventTypes.blue   -> noteTypes.blue
      [] eventType = eventTypes.orange -> noteTypes.orange
      [] eventType = eventTypes.black3 -> noteTypes.black3
      [] eventType = eventTypes.black2 -> noteTypes.black2
      [] eventType = eventTypes.black1 -> noteTypes.black1
      [] eventType = eventTypes.white3 -> noteTypes.white3
      [] eventType = eventTypes.white2 -> noteTypes.white2
      [] eventType = eventTypes.white1 -> noteTypes.white1

hopoThresholdTicks(modifiers, ticksPerBeat, fmt) ==
    IF modifiers.hopo_frequency # 0 THEN modifiers.hopo_frequency
    ELSE IF modifiers.eighthnote_hopo THEN 1 + (ticksPerBeat \div 2)
    ELSE IF fmt = "mid" THEN 1 + (ticksPerBeat \div 3)
    ELSE (65 * ticksPerBeat) \div 192

HasType(events, type) == \E i \in DOMAIN events : events[i].type = type

\* _.maxBy(events.filter(isFretNote), e => e.length): the first of the longest.
LongestFretNote(events) ==
    LET notes == FretNotes(events)
        i == CHOOSE i \in DOMAIN notes :
                /\ \A j \in DOMAIN notes : notes[j].length <= notes[i].length
                /\ \A j \in 1..(i - 1) : notes[j].length < notes[i].length
    IN  notes[i]

\* The forceOpen branch of the loop: the longest fret note becomes the open
\* note, the other fret notes and the forceOpen markers are removed.
ApplyForceOpen(events) ==
    IF HasType(events, eventTypes.forceOpen)
    THEN SelectSeq(events, LAMBDA e : ~(isFretNote(e.type) \/ e.type = eventTypes.forceOpen))
         \o << [LongestFretNote(events) EXCEPT !.type = eventTypes.open] >>
    ELSE events

NoNotes == <<>>     \* lastNotes = null

\* isNaturalHopo with the tick distance compared by < instead of <=.
isNaturalHopoBelowThreshold(events, notes, lastNotes, threshold, fmt) ==
    /\ lastNotes # NoNotes
    /\ notes[1].tick - lastNotes[1].tick < threshold
    /\ ~isFretChord(notes)
    /\ ~isSameFretNote(events, lastNotes)
    /\ ~(fmt = "mid" /\ isFretChord(lastNotes) /\ isInFretNote(notes, lastNotes))

isNaturalHopo(events, notes, lastNotes, threshold, fmt) ==
    /\ lastNotes # NoNotes
    /\ notes[1].tick - lastNotes[1].tick <= threshold
    /\ ~isFretChord(notes)
    /\ ~isSameFretNote(events, lastNotes)
    /\ ~(fmt = "mid" /\ isFretChord(lastNotes) /\ isInFretNote(notes, lastNotes))

\* forceResult with forceHopo tried before forceTap.
forceResultHopoFirst(events, naturalHopo) ==
    LET hasForceUnnatural == HasType(events, eventTypes.forceUnnatural)
    IN  IF HasType(events, eventTypes.forceHopo) THEN noteFlags.hopo
        ELSE IF HasType(events, eventTypes.forceTap) THEN noteFlags.tap
        ELSE IF HasType(events, eventTypes.forceStrum) THEN noteFlags.strum
        ELSE IF (hasForceUnnatural /\ naturalHopo) \/ (~hasForceUnnatural /\ ~naturalHopo)
             THEN noteFlags.strum
        ELSE noteFlags.hopo

forceResult(events, naturalHopo) ==
    LET hasForceUnnatural == HasType(events, eventTypes.forceUnnatural)
    IN  IF HasType(events, eventTypes.forceTap) THEN noteFlags.tap
        ELSE IF HasType(events, eventTypes.forceHopo) THEN noteFlags.hopo
        ELSE IF HasType(events, eventTypes.forceStrum) THEN noteFlags.strum
        ELSE IF (hasForceUnnatural /\ naturalHopo) \/ (~hasForceUnnatural /\ ~naturalHopo)
             THEN noteFlags.strum
        ELSE noteFlags.hopo

\* The loop of resolveFretModifiers from group i on. Each entry of the result
\* records one emitted note group with what the loop computed for it.
RECURSIVE ResolveFretFrom(_, _, _, _, _)

\* The rest of one pass of the loop: `events` is group i after the forceOpen
\* branch and `notes` the fret notes among them.
ResolveFretNotes(trackEventGroups, i, lastNotes, threshold, fmt, events, notes) ==
    LET natural == isNaturalHopo(events, notes, lastNotes, threshold, fmt)
    IN  IF notes = <<>>
        THEN ResolveFretFrom(trackEventGroups, i + 1, lastNotes, threshold, fmt)
        ELSE << [ noteGroup |-> [ k \in DOMAIN notes |->
                                    [ tick |-> notes[k].tick,
                                      length |-> notes[k].length,
                                      type |-> getFretNoteTypeFromEventType(notes[k].type),
                                      flags |-> forceResult(events, natural) ] ],
                  events |-> events,
                  lastNotes |-> lastNotes,
                  isNaturalHopo |-> natural ] >>
             \o ResolveFretFrom(trackEventGroups, i + 1, notes, threshold, fmt)

\* One pass of the loop on `events`, group i after the forceOpen branch.
ResolveFretEvents(trackEventGroups, i, lastNotes, threshold, fmt, events) ==
    ResolveFretNotes(trackEventGroups, i, lastNotes, threshold, fmt, events,
                     FretNotes(events))

ResolveFretFrom(trackEventGroups, i, lastNotes, threshold, fmt) ==
    IF i > Len(trackEventGroups) THEN <<>>
    ELSE ResolveFretEvents(trackEventGroups, i, lastNotes, threshold, fmt,
                           ApplyForceOpen(trackEventGroups[i]))

FretResolution(trackEventGroups, modifiers, ticksPerBeat, fmt) ==
    ResolveFretFrom(trackEventGroups, 1, NoNotes,
                    hopoThresholdTicks(modifiers, ticksPerBeat, fmt), fmt)

resolveFretModifiers(trackEventGroups, modifiers, ticksPerBeat, fmt) ==
    LET trace == FretResolution(trackEventGroups, modifiers, ticksPerBeat, fmt)
    IN  [ k \in DOMAIN trace |-> trace[k].noteGroup ]

-----------------------------------------------------------------------------
(* Chord snapping (notes-parser.ts)                                        *)

HasBit(flags, bit) == (flags \div bit) % 2 = 1

\* flags & (disco | discoNoflip)
DiscoBits(flags) ==
    (IF HasBit(flags, noteFlags.disco) THEN noteFlags.disco ELSE 0)
    + (IF HasBit(flags, noteFlags.discoNoflip) THEN noteFlags.discoNoflip ELSE 0)

\* (a | b) & (disco | discoNoflip)
DiscoBitsOfEither(a, b) ==
    (IF HasBit(a, noteFlags.disco) \/ HasBit(b, noteFlags.disco) THEN noteFlags.disco ELSE 0)
    + (IF HasBit(a, noteFlags.discoNoflip) \/ HasBit(b, noteFlags.discoNoflip)
       THEN noteFlags.discoNoflip ELSE 0)

\* lastNoteGroup.find(n => n.type === type)?.flags ?? null, with -1 for null
FlagsOfType(noteGroup, type) ==
    IF \E i \in DOMAIN noteGroup : noteGroup[i].type = type
    THEN noteGroup[CHOOSE i \in DOMAIN noteGroup :
                       /\ noteGroup[i].type = type
                       /\ \A j \in 1..(i - 1) : noteGroup[j].type # type].flags
    ELSE -1

\* The flags of a merged drum note when the disco bits of lastNoteGroup are
\* added to the note's own disco bits instead of replacing them.
SnapDrumFlagsAddingDisco(note, lastNoteGroup) ==
    LET lastSame == FlagsOfType(lastNoteGroup, note.type)
        inherited == IF note.type \in { noteTypes.kick, noteTypes.redDrum, noteTypes.yellowDrum,
                                        noteTypes.blueDrum, noteTypes.greenDrum }
                        /\ lastSame # -1
                     THEN lastSame ELSE note.flags
        lastRed == FlagsOfType(lastNoteGroup, noteTypes.redDrum)
        lastYellow == FlagsOfType(lastNoteGroup, noteTypes.yellowDrum)
    IN  IF note.type \in { noteTypes.redDrum, noteTypes.yellowDrum }
           /\ (lastRed # -1 \/ lastYellow # -1)
        THEN (inherited - DiscoBits(inherited))
             + DiscoBitsOfEither(inherited,
                                 DiscoBitsOfEither(Max(lastRed, 0), Max(lastYellow, 0)))
        ELSE inherited

\* The flags a drum note gets when it is merged into lastNoteGroup.
SnapDrumFlags(note, lastNoteGroup) ==
    LET lastSame == FlagsOfType(lastNoteGroup, note.type)
        inherited == IF note.type \in { noteTypes.kick, noteTypes.redDrum, noteTypes.yellowDrum,
                                        noteTypes.blueDrum, noteTypes.greenDrum }
                        /\ lastSame # -1
                     THEN lastSame ELSE note.flags
        lastRed == FlagsOfType(lastNoteGroup, noteTypes.redDrum)
        lastYellow == FlagsOfType(lastNoteGroup, noteTypes.yellowDrum)
    IN  IF note.type \in { noteTypes.redDrum, noteTypes.yellowDrum }
           /\ (lastRed # -1 \/ lastYellow # -1)
        THEN (inherited - DiscoBits(inherited))
             + DiscoBitsOfEither(Max(lastRed, 0), Max(lastYellow, 0))
        ELSE inherited

RECURSIVE SnapFrom(_, _, _, _, _)
SnapFrom(noteGroups, i, newNoteGroups, chord_snap_threshold, instr) ==
    IF i > Len(noteGroups) THEN newNoteGroups
    ELSE LET noteGroup == noteGroups[i]
             last == Len(newNoteGroups)
             lastNoteGroup == newNoteGroups[last]
             reflagged == [ k \in DOMAIN noteGroup |->
                              [ noteGroup[k] EXCEPT !.flags =
                                  IF instr = "drums"
                                  THEN SnapDrumFlags(noteGroup[k], lastNoteGroup)
                                  ELSE lastNoteGroup[1].flags ] ]
             snapped == [ k \in DOMAIN noteGroup |->
                            [ reflagged[k] EXCEPT !.tick = lastNoteGroup[1].tick ] ]
         IN  IF noteGroup[1].tick - lastNoteGroup[1].tick >= chord_snap_threshold
             THEN SnapFrom(noteGroups, i + 1, Append(newNoteGroups, noteGroup),
                           chord_snap_threshold, instr)
             ELSE SnapFrom(noteGroups, i + 1,
                           [ newNoteGroups EXCEPT ![last] = lastNoteGroup \o snapped ],
                           chord_snap_threshold, instr)

snapChords(noteGroups, chord_snap_threshold, instr) ==
    IF chord_snap_threshold <= 0 \/ Len(noteGroups) = 0 THEN noteGroups
    ELSE SnapFrom(noteGroups, 2, << noteGroups[1] >>, chord_snap_threshold, instr)

-----------------------------------------------------------------------------
(* Overlap repair (notes-parser.ts)                                        *)

\* a.type - b.type || b.length - a.length || b.flags - a.flags
NoteBefore(a, b) ==
    \/ a.type < b.type
    \/ a.type = b.type /\ a.length > b.length
    \/ a.type = b.type /\ a.length = b.length /\ a.flags > b.flags

\* The elements of a sorted array that the removal loops keep: those that do
\* not repeat the key of the element before them.
KeepFirstOfRuns(sorted, SameKey(_, _)) ==
    LET kept == { i \in DOMAIN sorted : i = 1 \/ ~SameKey(sorted[i], sorted[i - 1]) }
        order == Ascending(kept)
        remaining == [ k \in DOMAIN order |-> sorted[order[k]] ]
    IN  SubSeq(remaining, 1, Len(order))

\* The sort of a note group without the removal of repeated note types.
SortNoteGroupOnly(noteGroup) == StableSort(noteGroup, NoteBefore)

DedupeNoteGroup(noteGroup) ==
    KeepFirstOfRuns(StableSort(noteGroup, NoteBefore), LAMBDA a, b : a.type = b.type)

\* The second loop of sortAndFixInvalidNoteOverlaps when it only cuts the
\* earlier sustain and leaves the later note as long as it was.
RECURSIVE FixNoteOverlapsTruncatingFrom(_, _, _)
FixNoteOverlapsTruncatingFrom(notes, i, previousNotesOfType) ==
    IF i > Len(notes) THEN notes
    ELSE LET note == notes[i]
             p == previousNotesOfType[note.type]
             fixed ==
                IF p # 0 /\ notes[p].tick + notes[p].length > note.tick
                THEN [ notes EXCEPT ![p].length = note.tick - notes[p].tick ]
                ELSE notes
         IN  FixNoteOverlapsTruncatingFrom(fixed, i + 1,
                                           [ previousNotesOfType EXCEPT ![note.type] = i ])

\* The second loop of sortAndFixInvalidNoteOverlaps over the notes of all
\* groups in order; previousNotesOfType maps a note type to the index of the
\* last note of that type, 0 when there is none yet.
RECURSIVE FixNoteOverlapsFrom(_, _, _)
FixNoteOverlapsFrom(notes, i, previousNotesOfType) ==
    IF i > Len(notes) THEN notes
    ELSE LET note == notes[i]
             p == previousNotesOfType[note.type]
             fixed ==
                IF p # 0 /\ notes[p].tick + notes[p].length > note.tick
                THEN [ notes EXCEPT
                         ![i].length = Max(note.length,
                                           notes[p].length - (note.tick - notes[p].tick)),
                         ![p].length = note.tick - notes[p].tick ]
                ELSE notes
         IN  FixNoteOverlapsFrom(fixed, i + 1, [ previousNotesOfType EXCEPT ![note.type] = i ])

\* The first loop alone: groups deduplicated, sustains left as they are.
dedupeNoteGroupsOnly(noteGroups) ==
    [ g \in DOMAIN noteGroups |-> DedupeNoteGroup(noteGroups[g]) ]

sortAndFixInvalidNoteOverlaps(noteGroups) ==
    LET deduped == [ g \in DOMAIN noteGroups |-> DedupeNoteGroup(noteGroups[g]) ]
        allTypes == { noteTypes[n] : n \in DOMAIN noteTypes }
    IN  Regroup(deduped,
                FixNoteOverlapsFrom(Flatten(deduped), 1, [ t \in allTypes |-> 0 ]))

\* a.tick - b.tick || b.length - a.length
EventBefore(a, b) ==
    \/ a.tick < b.tick
    \/ a.tick = b.tick /\ a.length > b.length

\* The last loop of sortAndFixInvalidEventOverlaps; previousEvent is events[i - 1].
RECURSIVE FixEventOverlapsFrom(_, _)
FixEventOverlapsFrom(events, i) ==
    IF i > Len(events) THEN events
    ELSE IF i > 1 /\ events[i - 1].tick + events[i - 1].length > events[i].tick
    THEN LET previousEvent == events[i - 1]
             event == events[i]
         IN  FixEventOverlapsFrom(
                [ events EXCEPT
                    ![i].length = Max(event.length,
                                      previousEvent.length - (event.tick - previousEvent.tick)),
                    ![i].msLength = Max(event.msLength,
                                        previousEvent.msLength - (event.msTime - previousEvent.msTime)),
                    ![i - 1].length = event.tick - previousEvent.tick,
                    ![i - 1].msLength = event.msTime - previousEvent.msTime ],
                i + 1)
    ELSE FixEventOverlapsFrom(events, i + 1)

\* The sort and the removal of same-tick duplicates alone.
dedupeEventsOnly(events) ==
    KeepFirstOfRuns(StableSort(events, EventBefore), LAMBDA a, b : a.tick = b.tick)

sortAndFixInvalidEventOverlaps(events) ==
    FixEventOverlapsFrom(
        KeepFirstOfRuns(StableSort(events, EventBefore), LAMBDA a, b : a.tick = b.tick),
        1)

\* tick ascending, then isDouble false first, then length descending
FlexLaneBefore(a, b) ==
    \/ a.tick < b.tick
    \/ a.tick = b.tick /\ ~a.isDouble /\ b.isDouble
    \/ a.tick = b.tick /\ a.isDouble = b.isDouble /\ a.length > b.length

sortAndFixInvalidFlexLaneOverlaps(events) ==
    KeepFirstOfRuns(StableSort(events, FlexLaneBefore),
                    LAMBDA a, b : a.tick = b.tick /\ a.isDouble = b.isDouble)

-----------------------------------------------------------------------------
(* The raw parsers: what parseNotesFromChart and parseNotesFromMidi build   *)
(* from the decoded file                                                   *)

\* _.orderBy(events, 'tick')
OrderByTick(events) == StableSort(events, LAMBDA a, b : a.tick < b.tick)

\* The loop of mergeSoloEvents when a soloend takes the oldest open solo
\* start (shift) where the source takes the latest (pop).
RECURSIVE MergeSoloOldestFrom(_, _, _)
MergeSoloOldestFrom(events, i, soloSectionStartEvents) ==
    IF i > Len(events) THEN events
    ELSE IF events[i].type = eventTypes.soloSectionStart
    THEN MergeSoloOldestFrom(events, i + 1, Append(soloSectionStartEvents, i))
    ELSE IF events[i].type = eventTypes.soloSectionEnd /\ soloSectionStartEvents # <<>>
    THEN LET start == soloSectionStartEvents[1]
         IN  MergeSoloOldestFrom(
                [ events EXCEPT ![start].type = eventTypes.soloSection,
                                ![start].length = events[i].tick - events[start].tick + 1 ],
                i + 1, Tail(soloSectionStartEvents))
    ELSE MergeSoloOldestFrom(events, i + 1, soloSectionStartEvents)

\* The loop of mergeSoloEvents from event i on; soloSectionStartEvents is the
\* stack of the indices of the solo starts still open.
RECURSIVE MergeSoloFrom(_, _, _)
MergeSoloFrom(events, i, soloSectionStartEvents) ==
    IF i > Len(events) THEN events
    ELSE IF events[i].type = eventTypes.soloSectionStart
    THEN MergeSoloFrom(events, i + 1, Append(soloSectionStartEvents, i))
    ELSE IF events[i].type = eventTypes.soloSectionEnd /\ soloSectionStartEvents # <<>>
    THEN LET top == Len(soloSectionStartEvents)
             start == soloSectionStartEvents[top]
         IN  MergeSoloFrom(
                [ events EXCEPT ![start].type = eventTypes.soloSection,
                                ![start].length = events[i].tick - events[start].tick + 1 ],
                i + 1, SubSeq(soloSectionStartEvents, 1, top - 1))
    ELSE MergeSoloFrom(events, i + 1, soloSectionStartEvents)

mergeSoloEvents(events) ==
    SelectSeq(MergeSoloFrom(events, 1, <<>>),
              LAMBDA e : e.type \notin { eventTypes.soloSectionStart, eventTypes.soloSectionEnd })

NoTick == -1    \* firstCodaTick = null

\* codaEvents[0] ? codaEvents[0].tick : null
firstCodaTick(events) ==
    LET codaEvents == SelectSeq(events, LAMBDA e : e.text = "coda")
    IN  IF codaEvents # <<>> THEN codaEvents[1].tick ELSE NoTick

\* The loop of both parsers that distributes a track's events over the raw
\* phrase tables and trackEvents.
RawTrack(instr, trackEvents, codaTick) ==
    [ instrument |-> instr,
      difficulty |-> "expert",
      starPowerSections |->
          SelectSeq(trackEvents, LAMBDA e : e.type = eventTypes.starPower),
      rejectedStarPowerSections |->
          SelectSeq(trackEvents, LAMBDA e : e.type = eventTypes.rejectedStarPower),
      soloSections |->
          SelectSeq(trackEvents, LAMBDA e : e.type = eventTypes.soloSection),
      flexLanes |->
          LET lanes == SelectSeq(trackEvents, LAMBDA e :
                          e.type \in { eventTypes.flexLaneSingle, eventTypes.flexLaneDouble })
          IN  [ k \in DOMAIN lanes |->
                  [ tick |-> lanes[k].tick, length |-> lanes[k].length,
                    isDouble |-> lanes[k].type = eventTypes.flexLaneDouble ] ],
      drumFreestyleSections |->
          LET fills == SelectSeq(trackEvents, LAMBDA e : e.type = eventTypes.freestyleSection)
          IN  [ k \in DOMAIN fills |->
                  [ tick |-> fills[k].tick, length |-> fills[k].length,
                    isCoda |-> IF codaTick = NoTick THEN FALSE
                               ELSE fills[k].tick >= codaTick ] ],
      trackEvents |->
          SelectSeq(trackEvents, LAMBDA e :
              e.type \notin { eventTypes.starPower, eventTypes.rejectedStarPower,
                              eventTypes.soloSection, eventTypes.flexLaneSingle,
                              eventTypes.flexLaneDouble, eventTypes.freestyleSection }) ]

\* The .tap() of both parsers on tempos: a 120 BPM marker is put in front
\* when the first marker is not at tick 0.
WithTempoAtZero(tempos) ==
    IF tempos = <<>> \/ tempos[1].tick # 0
    THEN << [tick |-> 0, millibeatsPerMinute |-> 120000] >> \o tempos
    ELSE tempos

\* The same for time signatures: 4/4 at tick 0 (the denominator 4 is 2^2).
WithTimeSignatureAtZero(timeSignatures) ==
    IF timeSignatures = <<>> \/ timeSignatures[1].tick # 0
    THEN << [tick |-> 0, numerator |-> 4, denominatorExp |-> 2] >> \o timeSignatures
    ELSE timeSignatures

TicksOfText(events, text) ==
    LET hits == SelectSeq(events, LAMBDA e : e.text = text)
    IN  [ k \in DOMAIN hits |-> [tick |-> hits[k].tick] ]

\* parseNotesFromChart throws on a zero tempo and on a zero numerator. (Its
\* denominator is 2^exponent or 4 and cannot be zero.)
chartParseThrows(tempos, timeSignatures) ==
    \/ \E i \in DOMAIN tempos : tempos[i].millibeatsPerMinute = 0
    \/ \E i \in DOMAIN timeSignatures : timeSignatures[i].numerator = 0

parseNotesFromChart(ticksPerBeat, tempos, timeSignatures, events, instr, trackLines) ==
    [ chartTicksPerBeat |-> ticksPerBeat,
      tempos |-> WithTempoAtZero(tempos),
      timeSignatures |-> WithTimeSignatureAtZero(timeSignatures),
      sections |-> TicksOfText(events, "section"),
      endEvents |-> TicksOfText(events, "end"),
      trackData |-> << RawTrack(instr, mergeSoloEvents(OrderByTick(trackLines)),
                                firstCodaTick(events)) >> ]

\* discoFlipDifficultyMap[data[4]]: the index of the difficulty a Phase
\* Shift SysEx event names, -1 where the array has no element (undefined).
discoFlipDifficultyMap(byte) == IF byte \in 0..3 THEN byte ELSE -1

\* The type getTrackEventEnds reads from data[5] of a Phase Shift SysEx
\* event, -1 for null.
SysExEventType(event) ==
    IF event.type = 1 THEN eventTypes.forceOpen
    ELSE IF event.type = 4 THEN eventTypes.forceTap
    ELSE -1

\* getTrackEventEnds pushes the event of a Phase Shift SysEx event with a
\* known type onto trackEventEnds['all'] for the difficulty byte 0xff and
\* onto trackEventEnds[discoFlipDifficultyMap[byte]] otherwise; the latter
\* is undefined, and the push a TypeError, when the map has no such element.
getTrackEventEndsThrows(sysEx) ==
    \E i \in DOMAIN sysEx :
        /\ SysExEventType(sysEx[i]) # -1
        /\ sysEx[i].difficulty # 255
        /\ discoFlipDifficultyMap(sysEx[i].difficulty) = -1

\* What parseNotesFromMidi throws for the decoded file, "" when it returns.
\* getTrackEventEnds runs for every instrument track.
midiParseError(file) ==
    IF file.header.format # 1 THEN "unsupported header format"
    ELSE IF file.header.smpte THEN "ticks per SMPTE frame is not supported"
    ELSE IF file.tracks = 0 THEN "no tracks detected"
    ELSE IF getTrackEventEndsThrows(file.sysEx) THEN "TypeError"
    ELSE ""

instrumentTypes == [ sixFret |-> 0, fiveFret |-> 1, drums |-> 2 ]

getInstrumentType(instr) ==
    IF instr = "drums" THEN instrumentTypes.drums
    ELSE IF instr \in { "guitarghl", "guitarcoopghl", "rhythmghl", "bassghl" }
         THEN instrumentTypes.sixFret
    ELSE instrumentTypes.fiveFret

\* The events of a difficulty with every solo turned into star power and
\* every star power phrase into rejected star power.
SwapLegacyStarPower(events) ==
    [ i \in DOMAIN events |->
        IF events[i].type = eventTypes.soloSection
        THEN [events[i] EXCEPT !.type = eventTypes.starPower]
        ELSE IF events[i].type = eventTypes.starPower
        THEN [events[i] EXCEPT !.type = eventTypes.rejectedStarPower]
        ELSE events[i] ]

\* fixLegacyGhStarPower swapping as soon as a difficulty without star power
\* has a solo.
fixLegacyGhStarPowerForOneSolo(events, instrumentType, modifiers) ==
    LET starPowerSections == SelectSeq(events, LAMBDA e : e.type = eventTypes.starPower)
        soloSections == SelectSeq(events, LAMBDA e : e.type = eventTypes.soloSection)
    IN  IF /\ instrumentType \in { instrumentTypes.fiveFret, instrumentTypes.sixFret }
           /\ modifiers.multiplier_note # 116
           /\ \/ modifiers.multiplier_note = 103
              \/ Len(starPowerSections) = 0 /\ Len(soloSections) > 0
        THEN SwapLegacyStarPower(events)
        ELSE events

\* fixLegacyGhStarPower, for the events of one difficulty.
fixLegacyGhStarPower(events, instrumentType, modifiers) ==
    LET starPowerSections == SelectSeq(events, LAMBDA e : e.type = eventTypes.starPower)
        soloSections == SelectSeq(events, LAMBDA e : e.type = eventTypes.soloSection)
    IN  IF /\ instrumentType \in { instrumentTypes.fiveFret, instrumentTypes.sixFret }
           /\ modifiers.multiplier_note # 116
           /\ \/ modifiers.multiplier_note = 103
              \/ Len(starPowerSections) = 0 /\ Len(soloSections) > 1
        THEN SwapLegacyStarPower(events)
        ELSE events

\* parseNotesFromMidi, from the events of one difficulty of one instrument
\* track as splitMidiModifierSustains returns them: the legacy star power
\* fix is applied, and tracks without trackEvents are filtered out.
parseNotesFromMidi(ticksPerBeat, tempos, timeSignatures, events, instr, trackDifficulty, modifiers) ==
    [ chartTicksPerBeat |-> ticksPerBeat,
      tempos |-> WithTempoAtZero(tempos),
      timeSignatures |-> WithTimeSignatureAtZero(timeSignatures),
      sections |-> TicksOfText(events, "section"),
      endEvents |-> TicksOfText(events, "end"),
      trackData |->
          SelectSeq(<< RawTrack(instr,
                                fixLegacyGhStarPower(trackDifficulty, getInstrumentType(instr),
                                                     modifiers),
                                firstCodaTick(events)) >>,
                    LAMBDA track : Len(track.trackEvents) > 0) ]

-----------------------------------------------------------------------------
(* Drum modifier resolution (notes-parser.ts)                              *)

drumTypes == [ fourLane |-> 0, fourLanePro |-> 1, fiveLane |-> 2 ]

NoDrumType == -1    \* drumType = null

isKickNote(eventType) == eventType \in { eventTypes.kick, eventTypes.kick2x }

isDrumNote(eventType) ==
    eventType \in { eventTypes.kick, eventTypes.kick2x, eventTypes.redDrum,
                    eventTypes.yellowDrum, eventTypes.blueDrum,
                    eventTypes.fiveOrangeFourGreenDrum, eventTypes.fiveGreenDrum }

isCymbalOrTomMarker(type) ==
    type \in { eventTypes.yellowCymbalMarker, eventTypes.blueCymbalMarker,
               eventTypes.greenCymbalMarker, eventTypes.yellowTomMarker,
               eventTypes.blueTomMarker, eventTypes.greenTomMarker }

getDrumNoteTypeFromEventType(eventType, hasOrangeAndGreen) ==
    CASE eventType = eventTypes.redDrum -> noteTypes.redDrum
      [] eventType = eventTypes.yellowDrum -> noteTypes.yellowDrum
      [] eventType = eventTypes.blueDrum -> noteTypes.blueDrum
      [] eventType = eventTypes.fiveOrangeFourGreenDrum -> noteTypes.greenDrum
      [] eventType = eventTypes.fiveGreenDrum ->
            IF hasOrangeAndGreen THEN noteTypes.blueDrum ELSE noteTypes.greenDrum

\* The tom marker (.mid) and the cymbal marker (.chart) of a pad, 0 for a pad
\* that has none.
TomMarkerOf(eventType) ==
    CASE eventType = eventTypes.yellowDrum -> eventTypes.yellowTomMarker
      [] eventType = eventTypes.blueDrum -> eventTypes.blueTomMarker
      [] eventType = eventTypes.fiveOrangeFourGreenDrum -> eventTypes.greenTomMarker
      [] OTHER -> 0

CymbalMarkerOf(eventType) ==
    CASE eventType = eventTypes.yellowDrum -> eventTypes.yellowCymbalMarker
      [] eventType = eventTypes.blueDrum -> eventTypes.blueCymbalMarker
      [] eventType = eventTypes.fiveOrangeFourGreenDrum -> eventTypes.greenCymbalMarker
      [] OTHER -> 0

getTomOrCymbalFlags(eventType, modifiers, drumType, fmt) ==
    CASE drumType = drumTypes.fourLane -> noteFlags.tom
      [] drumType = drumTypes.fourLanePro ->
            IF eventType \in { eventTypes.redDrum, eventTypes.fiveGreenDrum } THEN noteFlags.tom
            ELSE IF eventType \notin { eventTypes.yellowDrum, eventTypes.blueDrum,
                                       eventTypes.fiveOrangeFourGreenDrum } THEN noteFlags.none
            ELSE IF fmt = "mid"
            THEN (IF TomMarkerOf(eventType) \in modifiers THEN noteFlags.tom ELSE noteFlags.cymbal)
            ELSE (IF CymbalMarkerOf(eventType) \in modifiers THEN noteFlags.cymbal ELSE noteFlags.tom)
      [] drumType = drumTypes.fiveLane ->
            IF eventType \in { eventTypes.redDrum, eventTypes.blueDrum, eventTypes.fiveGreenDrum }
            THEN noteFlags.tom
            ELSE IF eventType \in { eventTypes.yellowDrum, eventTypes.fiveOrangeFourGreenDrum }
            THEN noteFlags.cymbal
            ELSE noteFlags.none
      [] OTHER -> noteFlags.none

AccentOf(eventType) ==
    CASE eventType = eventTypes.redDrum -> eventTypes.redAccent
      [] eventType = eventTypes.yellowDrum -> eventTypes.yellowAccent
      [] eventType = eventTypes.blueDrum -> eventTypes.blueAccent
      [] eventType = eventTypes.fiveOrangeFourGreenDrum -> eventTypes.fiveOrangeFourGreenAccent
      [] eventType = eventTypes.fiveGreenDrum -> eventTypes.fiveGreenAccent
      [] eventType \in { eventTypes.kick, eventTypes.kick2x } -> eventTypes.kickAccent
      [] OTHER -> 0

GhostOf(eventType) ==
    CASE eventType = eventTypes.redDrum -> eventTypes.redGhost
      [] eventType = eventTypes.yellowDrum -> eventTypes.yellowGhost
      [] eventType = eventTypes.blueDrum -> eventTypes.blueGhost
      [] eventType = eventTypes.fiveOrangeFourGreenDrum -> eventTypes.fiveOrangeFourGreenGhost
      [] eventType = eventTypes.fiveGreenDrum -> eventTypes.fiveGreenGhost
      [] eventType \in { eventTypes.kick, eventTypes.kick2x } -> eventTypes.kickGhost
      [] OTHER -> 0

getGhostOrAccentFlags(eventType, modifiers) ==
    IF ~isDrumNote(eventType) THEN noteFlags.none
    ELSE IF AccentOf(eventType) \in modifiers THEN noteFlags.accent
    ELSE IF GhostOf(eventType) \in modifiers THEN noteFlags.ghost
    ELSE noteFlags.none

discoFlipEventTypes ==
    { eventTypes.discoFlipOff, eventTypes.discoFlipOn, eventTypes.discoNoFlipOn }

\* activeDiscoFlip after a tick group when the greatest of its disco flip
\* modifiers is taken.
GreatestDiscoFlip(activeDiscoFlip, modifiers) ==
    LET present == modifiers \cap discoFlipEventTypes
    IN  IF present # {}
        THEN CHOOSE m \in present : \A o \in present : m >= o
        ELSE activeDiscoFlip

\* The value of activeDiscoFlip after a tick group with these modifiers.
NextDiscoFlip(activeDiscoFlip, modifiers) ==
    LET present == modifiers \cap discoFlipEventTypes
    IN  IF present # {}
        THEN CHOOSE m \in present : \A o \in present : m <= o
        ELSE activeDiscoFlip

\* The note group resolveDrumModifiers emits for one tick group: the kicks,
\* then the other drum notes. The flags of a note are disjoint bits, so that
\* the source's bitwise or is a sum.
DrumNoteGroup(events, activeDiscoFlip, drumType, fmt) ==
    LET notes == SelectSeq(events, LAMBDA e : isDrumNote(e.type) /\ ~isKickNote(e.type))
        kicks == SelectSeq(events, LAMBDA e : isKickNote(e.type))
        modifiers == { e.type : e \in { x \in Range(events) : ~isDrumNote(x.type) } }
        flamFlag == IF eventTypes.forceFlam \in modifiers THEN noteFlags.flam ELSE noteFlags.none
        hasOrangeAndGreen == /\ HasType(notes, eventTypes.fiveGreenDrum)
                             /\ HasType(notes, eventTypes.fiveOrangeFourGreenDrum)
        kickNote(kick) ==
            [ tick |-> kick.tick, length |-> kick.length, type |-> noteTypes.kick,
              flags |-> flamFlag
                        + (IF kick.type = eventTypes.kick THEN noteFlags.none
                           ELSE noteFlags.doubleKick)
                        + getGhostOrAccentFlags(kick.type, modifiers) ]
        drumNote(note) ==
            LET type == getDrumNoteTypeFromEventType(note.type, hasOrangeAndGreen)
                canBeDisco == type \in { noteTypes.redDrum, noteTypes.yellowDrum }
                discoFlag == IF ~canBeDisco \/ activeDiscoFlip = eventTypes.discoFlipOff
                             THEN noteFlags.none
                             ELSE IF activeDiscoFlip = eventTypes.discoFlipOn THEN noteFlags.disco
                             ELSE noteFlags.discoNoflip
            IN  [ tick |-> note.tick, length |-> note.length, type |-> type,
                  flags |-> flamFlag + discoFlag
                            + getTomOrCymbalFlags(note.type, modifiers, drumType, fmt)
                            + getGhostOrAccentFlags(note.type, modifiers) ]
    IN  [ k \in DOMAIN kicks |-> kickNote(kicks[k]) ]
        \o [ k \in DOMAIN notes |-> drumNote(notes[k]) ]

RECURSIVE ResolveDrumFrom(_, _, _, _, _)
ResolveDrumFrom(trackEventGroups, i, activeDiscoFlip, drumType, fmt) ==
    IF i > Len(trackEventGroups) THEN <<>>
    ELSE LET events == trackEventGroups[i]
             modifiers == { e.type : e \in { x \in Range(events) : ~isDrumNote(x.type) } }
             active == NextDiscoFlip(activeDiscoFlip, modifiers)
         IN  IF \A k \in DOMAIN events : ~isDrumNote(events[k].type)
             THEN ResolveDrumFrom(trackEventGroups, i + 1, active, drumType, fmt)
             ELSE << DrumNoteGroup(events, active, drumType, fmt) >>
                  \o ResolveDrumFrom(trackEventGroups, i + 1, active, drumType, fmt)

resolveDrumModifiers(trackEventGroups, drumType, fmt) ==
    ResolveDrumFrom(trackEventGroups, 1, eventTypes.discoFlipOff, drumType, fmt)

-----------------------------------------------------------------------------
(* The events of a .mid instrument track (midi-parser.ts)                   *)

\* difficulties, in the order every loop of the parsers takes them
difficulties == << "expert", "hard", "medium", "easy" >>

sysExDifficultyMap == << "easy", "medium", "hard", "expert" >>

fiveFretDiffStarts == [ easy |-> 59, medium |-> 71, hard |-> 83, expert |-> 95 ]

sixFretDiffStarts == [ easy |-> 58, medium |-> 70, hard |-> 82, expert |-> 94 ]

drumsDiffStarts == [ easy |-> 60, medium |-> 72, hard |-> 84, expert |-> 96 ]

NoType == -1    \* type = null

getInstrumentEventType(note) ==
    CASE note = 103 -> eventTypes.soloSection
      [] note = 104 -> eventTypes.forceTap
      [] note = 109 -> eventTypes.forceFlam
      [] note = 110 -> eventTypes.yellowTomMarker
      [] note = 111 -> eventTypes.blueTomMarker
      [] note = 112 -> eventTypes.greenTomMarker
      [] note = 116 -> eventTypes.starPower
      [] note = 120 -> eventTypes.freestyleSection
      [] note = 126 -> eventTypes.flexLaneSingle
      [] note = 127 -> eventTypes.flexLaneDouble
      [] OTHER -> NoType

get6FretNoteType(note, difficulty) ==
    LET offset == note - sixFretDiffStarts[difficulty]
    IN  CASE offset = 0 -> eventTypes.open
          [] offset = 1 -> eventTypes.white1
          [] offset = 2 -> eventTypes.white2
          [] offset = 3 -> eventTypes.white3
          [] offset = 4 -> eventTypes.black1
          [] offset = 5 -> eventTypes.black2
          [] offset = 6 -> eventTypes.black3
          [] offset = 7 -> eventTypes.forceHopo
          [] offset = 8 -> eventTypes.forceStrum
          [] OTHER -> NoType

get5FretNoteType(note, difficulty, enhancedOpens) ==
    LET offset == note - fiveFretDiffStarts[difficulty]
    IN  CASE offset = 0 -> IF enhancedOpens THEN eventTypes.open ELSE NoType
          [] offset = 1 -> eventTypes.green
          [] offset = 2 -> eventTypes.red
          [] offset = 3 -> eventTypes.yellow
          [] offset = 4 -> eventTypes.blue
          [] offset = 5 -> eventTypes.orange
          [] offset = 6 -> eventTypes.forceHopo
          [] offset = 7 -> eventTypes.forceStrum
          [] OTHER -> NoType

getDrumsNoteType(note, difficulty) ==
    LET offset == note - drumsDiffStarts[difficulty]
    IN  CASE offset = -1 -> eventTypes.kick2x
          [] offset = 0 -> eventTypes.kick
          [] offset = 1 -> eventTypes.redDrum
          [] offset = 2 -> eventTypes.yellowDrum
          [] offset = 3 -> eventTypes.blueDrum
          [] offset = 4 -> eventTypes.fiveOrangeFourGreenDrum
          [] offset = 5 -> eventTypes.fiveGreenDrum
          [] OTHER -> NoType

\* The difficulty of a note number, "all" above 102.
NoteDifficulty(noteNumber) ==
    IF noteNumber <= 66 THEN "easy"
    ELSE IF noteNumber <= 78 THEN "medium"
    ELSE IF noteNumber <= 90 THEN "hard"
    ELSE IF noteNumber <= 102 THEN "expert"
    ELSE "all"

\* The match of the disco flip pattern mix[ _]([0-3])[ _]drums([0-5])(...)
\* on the texts this model writes into a track, <<>> for no match.
discoFlipMatch(text) ==
    CASE text = "mix 3 drums0" -> << 3, "" >>
      [] text = "mix 3 drums0d" -> << 3, "d" >>
      [] text = "mix 3 drums0dnoflip" -> << 3, "dnoflip" >>
      [] text = "mix 3 drums0easy" -> << 3, "easy" >>
      [] text = "mix 2 drums0d" -> << 2, "d" >>
      [] OTHER -> <<>>

\* What getTrackEventEnds pushes for one event of the track: a sequence of
\* << key of trackEventEnds, TrackEventEnd >>. A MIDI event is kept with
\* deltaTime already absolute (convertToAbsoluteTime). A Phase Shift SysEx
\* event holds its bytes 4 to 6 as data.difficulty, data.type and data.on.
EventEndsOf(event, instrumentType, enhancedOpens) ==
    LET end(type, velocity, channel, isStart) ==
            [ tick |-> event.deltaTime, type |-> type, velocity |-> velocity,
              channel |-> channel, isStart |-> isStart ]
    IN  IF event.type = "sysEx"
        THEN LET type == SysExEventType(event.data)
             IN  IF type = NoType THEN <<>>
                 ELSE << << IF event.data.difficulty = 255 THEN "all"
                            ELSE sysExDifficultyMap[
                                     discoFlipDifficultyMap(event.data.difficulty) + 1],
                            end(type, 127, 1, event.data.on = 1) >> >>
        ELSE IF event.type \in { "noteOn", "noteOff" }
        THEN LET difficulty == NoteDifficulty(event.noteNumber)
                 type == IF difficulty = "all" THEN getInstrumentEventType(event.noteNumber)
                         ELSE IF instrumentType = instrumentTypes.sixFret
                         THEN get6FretNoteType(event.noteNumber, difficulty)
                         ELSE IF instrumentType = instrumentTypes.drums
                         THEN getDrumsNoteType(event.noteNumber, difficulty)
                         ELSE get5FretNoteType(event.noteNumber, difficulty, enhancedOpens)
             IN  IF type = NoType THEN <<>>
                 ELSE << << difficulty,
                            end(type, event.velocity, event.channel, event.type = "noteOn") >> >>
        ELSE IF event.type = "text"
        THEN LET match == discoFlipMatch(event.text)
                 eventType == IF match = <<>> THEN NoType
                              ELSE IF match[2] = "" THEN eventTypes.discoFlipOff
                              ELSE IF match[2] = "d" THEN eventTypes.discoFlipOn
                              ELSE IF match[2] = "dnoflip" THEN eventTypes.discoNoFlipOn
                              ELSE NoType
                 discoFlip == IF instrumentType = instrumentTypes.drums /\ eventType # NoType
                              THEN << << sysExDifficultyMap[match[1] + 1],
                                         end(eventType, 127, 1, TRUE) >>,
                                      << sysExDifficultyMap[match[1] + 1],
                                         end(eventType, 127, 1, FALSE) >> >>
                              ELSE <<>>
                 dynamics == IF event.text \in { "ENABLE_CHART_DYNAMICS",
                                                 "[ENABLE_CHART_DYNAMICS]" }
                             THEN << << "all", end(eventTypes.enableChartDynamics, 127, 1, TRUE) >>,
                                     << "all", end(eventTypes.enableChartDynamics, 127, 1, FALSE) >> >>
                             ELSE <<>>
             IN  discoFlip \o dynamics
        ELSE <<>>

\* The loop of getTrackEventEnds from event i on; enhancedOpens is set by
\* the ENHANCED_OPENS text event for the events after it.
RECURSIVE TrackEventEndsFrom(_, _, _, _)
TrackEventEndsFrom(events, i, instrumentType, enhancedOpens) ==
    IF i > Len(events) THEN <<>>
    ELSE EventEndsOf(events[i], instrumentType, enhancedOpens)
         \o TrackEventEndsFrom(events, i + 1, instrumentType,
                \/ enhancedOpens
                \/ /\ events[i].type = "text"
                   /\ events[i].text \in { "ENHANCED_OPENS", "[ENHANCED_OPENS]" })

\* getTrackEventEnds: trackEventEnds, a function of 'all' and the four
\* difficulties.
getTrackEventEnds(events, instrumentType) ==
    LET pushed == TrackEventEndsFrom(events, 1, instrumentType, FALSE)
    IN  [ key \in { "all", "expert", "hard", "medium", "easy" } |->
            LET ofKey == SelectSeq(pushed, LAMBDA p : p[1] = key)
            IN  [ k \in DOMAIN ofKey |-> ofKey[k][2] ] ]

\* _.orderBy(eventEnds, ['tick', 'type'], ['asc', 'desc'])
OrderByTickAndType(eventEnds) ==
    StableSort(eventEnds, LAMBDA a, b : a.tick < b.tick \/ (a.tick = b.tick /\ a.type > b.type))

\* distributeInstrumentEvents: the events of 'all' are appended to every
\* difficulty that holds an event, and each difficulty is ordered.
distributeInstrumentEvents(eventEnds) ==
    [ difficulty \in Range(difficulties) |->
        OrderByTickAndType(
            IF Len(eventEnds[difficulty]) = 0 THEN eventEnds[difficulty]
            ELSE eventEnds[difficulty] \o eventEnds["all"]) ]

\* The index in `open` of the most recent partial event of the type of the
\* end event, on whatever channel.
RECURSIVE LastOpenOfType(_, _, _, _)
LastOpenOfType(trackEvents, open, k, trackEventEnd) ==
    IF k = 0 THEN 0
    ELSE IF trackEvents[open[k]].type = trackEventEnd.type THEN k
    ELSE LastOpenOfType(trackEvents, open, k - 1, trackEventEnd)

\* The index in `open` of the most recent partial event of the type and on
\* the channel of the end event, searched from index k downwards; 0 when
\* there is none.
RECURSIVE LastOpenOnChannel(_, _, _, _)
LastOpenOnChannel(trackEvents, open, k, trackEventEnd) ==
    IF k = 0 THEN 0
    ELSE IF /\ trackEvents[open[k]].type = trackEventEnd.type
            /\ trackEvents[open[k]].channel = trackEventEnd.channel
    THEN k
    ELSE LastOpenOnChannel(trackEvents, open, k - 1, trackEventEnd)

\* The loop of getTrackEvents over the event ends of one difficulty from
\* index i on. `open` holds the indices in trackEvents of the partial events
\* of every type (partialTrackEventsMap), in the order they were pushed.
RECURSIVE ConnectFrom(_, _, _, _)
ConnectFrom(trackEventEnds, i, trackEvents, open) ==
    IF i > Len(trackEventEnds) THEN trackEvents
    ELSE LET trackEventEnd == trackEventEnds[i]
             k == LastOpenOnChannel(trackEvents, open, Len(open), trackEventEnd)
         IN  IF trackEventEnd.isStart
             THEN ConnectFrom(trackEventEnds, i + 1,
                              Append(trackEvents,
                                     [ tick |-> trackEventEnd.tick, length |-> -1,
                                       type |-> trackEventEnd.type,
                                       velocity |-> trackEventEnd.velocity,
                                       channel |-> trackEventEnd.channel ]),
                              Append(open, Len(trackEvents) + 1))
             ELSE IF k > 0
             THEN ConnectFrom(trackEventEnds, i + 1,
                              [ trackEvents EXCEPT ![open[k]].length =
                                    trackEventEnd.tick - trackEvents[open[k]].tick ],
                              pullAt(open, k))
             ELSE ConnectFrom(trackEventEnds, i + 1, trackEvents, open)

\* getTrackEvents, for every difficulty: start and end events connected,
\* the partial events that remain removed.
getTrackEvents(trackEventEnds) ==
    [ difficulty \in Range(difficulties) |->
        SelectSeq(ConnectFrom(trackEventEnds[difficulty], 1, <<>>, <<>>),
                  LAMBDA e : e.length # -1) ]

modifierSustains(instrumentType) ==
    IF instrumentType = instrumentTypes.drums
    THEN { eventTypes.forceFlam, eventTypes.yellowTomMarker, eventTypes.blueTomMarker,
           eventTypes.greenTomMarker }
    ELSE { eventTypes.forceOpen, eventTypes.forceTap, eventTypes.forceStrum,
           eventTypes.forceHopo }

modifiableNotes(instrumentType) ==
    IF instrumentType = instrumentTypes.fiveFret
    THEN { eventTypes.open, eventTypes.green, eventTypes.red, eventTypes.yellow,
           eventTypes.blue, eventTypes.orange }
    ELSE IF instrumentType = instrumentTypes.sixFret
    THEN { eventTypes.open, eventTypes.black3, eventTypes.black2, eventTypes.black1,
           eventTypes.white3, eventTypes.white2, eventTypes.white1 }
    ELSE { eventTypes.kick, eventTypes.kick2x, eventTypes.redDrum, eventTypes.yellowDrum,
           eventTypes.blueDrum, eventTypes.fiveOrangeFourGreenDrum,
           eventTypes.fiveGreenDrum }

\* The modifiers still active at tick when a modifier stays active on the
\* tick it ends on.
StillActiveThroughEnd(activeModifiers, tick) ==
    SelectSeq(activeModifiers, LAMBDA m : ~(m.tick + m.length < tick))

\* _.remove(activeModifiers, m => ...): the modifiers still active at tick
StillActive(activeModifiers, tick) ==
    SelectSeq(activeModifiers,
              LAMBDA m : ~(IF m.length = 0 THEN m.tick + m.length < tick
                           ELSE m.tick + m.length <= tick))

\* The zero-length copies a note at `tick` gets from the active modifiers
\* from index k on; latest[type] is the tick of the last copy of a type
\* (-1 for none).
RECURSIVE InsertedModifiersFrom(_, _, _, _)
InsertedModifiersFrom(activeModifiers, k, latest, tick) ==
    IF k > Len(activeModifiers) THEN <<>>
    ELSE LET m == activeModifiers[k]
         IN  IF latest[m.type] < tick
             THEN << [ tick |-> tick, length |-> 0, type |-> m.type,
                       velocity |-> m.velocity, channel |-> m.channel ] >>
                  \o InsertedModifiersFrom(activeModifiers, k + 1,
                                           [ latest EXCEPT ![m.type] = tick ], tick)
             ELSE InsertedModifiersFrom(activeModifiers, k + 1, latest, tick)

\* The ghost or accent event a drum note of velocity 1 or 127 gets.
DynamicsOf(event) ==
    [ tick |-> event.tick, length |-> 0, velocity |-> 127, channel |-> event.channel,
      type |-> IF event.velocity = 1 THEN GhostOf(event.type) ELSE AccentOf(event.type) ]

\* The loop of splitMidiModifierSustains over the events of one difficulty
\* from index i on. It returns the new events, hasNotes and
\* enableChartDynamics.
RECURSIVE SplitFrom(_, _, _, _, _, _, _, _)
SplitFrom(events, i, instrumentType, activeModifiers, latest, newEvents, hasNotes, enableChartDynamics) ==
    IF i > Len(events)
    THEN [ newEvents |-> newEvents, hasNotes |-> hasNotes,
           enableChartDynamics |-> enableChartDynamics ]
    ELSE LET event == events[i]
             active == StillActive(activeModifiers, event.tick)
             inserted == InsertedModifiersFrom(active, 1, latest, event.tick)
             dynamics == IF /\ enableChartDynamics
                            /\ instrumentType = instrumentTypes.drums
                            /\ event.velocity \in { 1, 127 }
                         THEN << DynamicsOf(event) >>
                         ELSE <<>>
         IN  IF event.type = eventTypes.enableChartDynamics
             THEN SplitFrom(events, i + 1, instrumentType, activeModifiers, latest,
                            newEvents, hasNotes, TRUE)
             ELSE IF event.type \in modifierSustains(instrumentType)
             THEN SplitFrom(events, i + 1, instrumentType, Append(active, event), latest,
                            newEvents, hasNotes, enableChartDynamics)
             ELSE IF event.type \in modifiableNotes(instrumentType)
             THEN SplitFrom(events, i + 1, instrumentType, active,
                            [ type \in DOMAIN latest |->
                                IF \E k \in DOMAIN inserted : inserted[k].type = type
                                THEN event.tick ELSE latest[type] ],
                            newEvents \o inserted \o dynamics \o << event >>,
                            TRUE, enableChartDynamics)
             ELSE SplitFrom(events, i + 1, instrumentType, active, latest,
                            Append(newEvents, event), hasNotes, enableChartDynamics)

\* The loop of splitMidiModifierSustains over the difficulties from the
\* d-th on; enableChartDynamics is one variable for all of them.
RECURSIVE SplitDifficultiesFrom(_, _, _, _)
SplitDifficultiesFrom(events, d, instrumentType, enableChartDynamics) ==
    IF d > Len(difficulties) THEN <<>>
    ELSE LET split == SplitFrom(events[difficulties[d]], 1, instrumentType, <<>>,
                                [ type \in modifierSustains(instrumentType) |-> -1 ],
                                <<>>, FALSE, enableChartDynamics)
         IN  << IF split.hasNotes THEN split.newEvents ELSE <<>> >>
             \o SplitDifficultiesFrom(events, d + 1, instrumentType,
                                      split.enableChartDynamics)

splitMidiModifierSustains(events, instrumentType) ==
    LET split == SplitDifficultiesFrom(events, 1, instrumentType, FALSE)
    IN  [ difficulty \in Range(difficulties) |->
            split[CHOOSE d \in DOMAIN difficulties : difficulties[d] = difficulty] ]

\* _.remove of fixFlexLaneLds: the flex lanes of easy, medium and hard whose
\* velocity is outside 21..30, 21..40 and 21..50 are dropped.
fixFlexLaneLds(events) ==
    LET highest == [ expert |-> 127, hard |-> 50, medium |-> 40, easy |-> 30 ]
    IN  [ difficulty \in Range(difficulties) |->
            SelectSeq(events[difficulty],
                      LAMBDA e : ~(/\ difficulty # "expert"
                                   /\ e.type \in { eventTypes.flexLaneSingle,
                                                   eventTypes.flexLaneDouble }
                                   /\ (e.velocity < 21 \/ e.velocity > highest[difficulty]))) ]

\* instrumentNameMap: the instrument of a track name, "" for a track that is
\* not an instrument track.
instrumentNameMap(trackName) ==
    CASE trackName \in { "T1 GEMS", "PART GUITAR" } -> "guitar"
      [] trackName = "PART GUITAR COOP" -> "guitarcoop"
      [] trackName = "PART RHYTHM" -> "rhythm"
      [] trackName = "PART BASS" -> "bass"
      [] trackName = "PART DRUMS" -> "drums"
      [] trackName = "PART KEYS" -> "keys"
      [] trackName = "PART GUITAR GHL" -> "guitarghl"
      [] trackName = "PART GUITAR COOP GHL" -> "guitarcoopghl"
      [] trackName = "PART RHYTHM GHL" -> "rhythmghl"
      [] trackName = "PART BASS GHL" -> "bassghl"
      [] OTHER -> ""

\* The chain of parseNotesFromMidi on the events of one instrument track:
\* trackDifficulties, the events of each difficulty.
trackDifficulties(trackEvents, instrumentType, modifiers) ==
    LET events == splitMidiModifierSustains(
                      getTrackEvents(distributeInstrumentEvents(
                          getTrackEventEnds(trackEvents, instrumentType))),
                      instrumentType)
    IN  fixFlexLaneLds([ difficulty \in Range(difficulties) |->
                           fixLegacyGhStarPower(events[difficulty], instrumentType, modifiers) ])

\* An event of a .mid track without the velocity and the channel, which
\* nothing reads after fixFlexLaneLds.
WithoutVelocity(events) ==
    [ k \in DOMAIN events |->
        [ tick |-> events[k].tick, length |-> events[k].length, type |-> events[k].type ] ]

\* The four raw tracks parseNotesFromMidi builds from one instrument track.
MidiRawTracks(track, codaTick, modifiers) ==
    LET instr == instrumentNameMap(track.trackName)
        events == trackDifficulties(track.trackEvents, getInstrumentType(instr), modifiers)
    IN  [ d \in DOMAIN difficulties |->
            [ RawTrack(instr, WithoutVelocity(events[difficulties[d]]), codaTick)
                EXCEPT !.difficulty = difficulties[d] ] ]

\* trackData of parseNotesFromMidi for the instrument tracks of the file:
\* the tracks of every instrument track in file order, those without
\* trackEvents filtered out.
midiTrackData(tracks, codaTick, modifiers) ==
    LET named == SelectSeq(tracks, LAMBDA t : instrumentNameMap(t.trackName) # "")
    IN  SelectSeq(Flatten([ t \in DOMAIN named |->
                              MidiRawTracks(named[t], codaTick, modifiers) ]),
                  LAMBDA track : Len(track.trackEvents) > 0)

-----------------------------------------------------------------------------
(* parseChartFile (notes-parser.ts)                                        *)

\* The drum type parseChartFile infers from the chart's drum tracks.
DrumTypeOf(rawTrackData, modifiers) ==
    LET drumTracks == SelectSeq(rawTrackData, LAMBDA track : track.instrument = "drums")
    IN  IF drumTracks = <<>> THEN NoDrumType
        ELSE IF modifiers.pro_drums THEN drumTypes.fourLanePro
        ELSE IF modifiers.five_lane_drums THEN drumTypes.fiveLane
        ELSE IF \E t \in DOMAIN drumTracks : \E e \in Range(drumTracks[t].trackEvents) :
                    isCymbalOrTomMarker(e.type)
             THEN drumTypes.fourLanePro
        ELSE IF \E t \in DOMAIN drumTracks :
                    HasType(drumTracks[t].trackEvents, eventTypes.fiveGreenDrum)
             THEN drumTypes.fiveLane
        ELSE drumTypes.fourLane

\* The tick groups of a track's events after the sustain cutoff.
TrackEventGroups(track, modifiers, ticksPerBeat, fmt) ==
    GroupByTick(trimSustains(track.trackEvents, modifiers.sustain_cutoff_threshold,
                             ticksPerBeat, fmt))

\* The note groups after modifier resolution, before chord snapping.
ResolvedNoteGroups(track, drumType, modifiers, ticksPerBeat, fmt) ==
    IF track.instrument = "drums"
    THEN resolveDrumModifiers(TrackEventGroups(track, modifiers, ticksPerBeat, fmt),
                              drumType, fmt)
    ELSE resolveFretModifiers(TrackEventGroups(track, modifiers, ticksPerBeat, fmt),
                              modifiers, ticksPerBeat, fmt)

\* One element of trackData of the returned chart.
ParsedTrack(track, drumType, timedTempos, modifiers, ticksPerBeat, fmt) ==
    [ instrument |-> track.instrument,
      difficulty |-> track.difficulty,
      starPowerSections |->
          sortAndFixInvalidEventOverlaps(
              setEventMsTimes(track.starPowerSections, timedTempos, ticksPerBeat)),
      rejectedStarPowerSections |->
          setEventMsTimes(track.rejectedStarPowerSections, timedTempos, ticksPerBeat),
      soloSections |->
          sortAndFixInvalidEventOverlaps(
              setEventMsTimes(track.soloSections, timedTempos, ticksPerBeat)),
      flexLanes |->
          sortAndFixInvalidFlexLaneOverlaps(
              setEventMsTimes(track.flexLanes, timedTempos, ticksPerBeat)),
      drumFreestyleSections |->
          setEventMsTimes(track.drumFreestyleSections, timedTempos, ticksPerBeat),
      noteEventGroups |->
          setEventGroupMsTimes(
              sortAndFixInvalidNoteOverlaps(
                  snapChords(ResolvedNoteGroups(track, drumType, modifiers, ticksPerBeat, fmt),
                             modifiers.chord_snap_threshold, track.instrument)),
              timedTempos, ticksPerBeat) ]

parseChartFile(rawChartData, fmt, modifiers) ==
    LET ticksPerBeat == rawChartData.chartTicksPerBeat
        timedTempos == getTimedTempos(rawChartData.tempos, ticksPerBeat)
        drumType == DrumTypeOf(rawChartData.trackData, modifiers)
    IN  [ resolution |-> ticksPerBeat,
          drumType |-> drumType,
          endEvents |-> setEventMsTimes(rawChartData.endEvents, timedTempos, ticksPerBeat),
          tempos |-> timedTempos,
          timeSignatures |->
              setEventMsTimes(rawChartData.timeSignatures, timedTempos, ticksPerBeat),
          sections |-> setEventMsTimes(rawChartData.sections, timedTempos, ticksPerBeat),
          trackData |->
              [ t \in DOMAIN rawChartData.trackData |->
                  ParsedTrack(rawChartData.trackData[t], drumType, timedTempos,
                              modifiers, ticksPerBeat, fmt) ] ]

-----------------------------------------------------------------------------
(* calculateTrackHash (track-hasher.ts): the serialised track              *)

\* _.chain(markers).sortBy(t => t.tick).sortedUniqBy(t => t.tick): without the
\* two reversals the first marker of each tick is the one kept.
FirstMarkerPerTick(markers) ==
    KeepFirstOfRuns(OrderByTick(markers), LAMBDA a, b : a.tick = b.tick)

\* _.chain(markers).sortBy(t => t.tick).reverse().sortedUniqBy(t => t.tick).reverse()
LastMarkerPerTick(markers) ==
    Reverse(KeepFirstOfRuns(Reverse(OrderByTick(markers)), LAMBDA a, b : a.tick = b.tick))

\* The while loop of pruneEmptyPhrases: the first note group at or after
\* `tick`, searched forward from noteIndex only.
RECURSIVE AdvanceNoteIndex(_, _, _)
AdvanceNoteIndex(notes, noteIndex, tick) ==
    IF noteIndex <= Len(notes) /\ notes[noteIndex][1].tick < tick
    THEN AdvanceNoteIndex(notes, noteIndex + 1, tick)
    ELSE noteIndex

\* The loop with the bare length as the extent of a phrase, without the one
\* tick a zero-length phrase covers.
RECURSIVE PruneByLengthFrom(_, _, _)
PruneByLengthFrom(phrases, notes, noteIndex) ==
    IF phrases = <<>> THEN <<>>
    ELSE LET phrase == Head(phrases)
             index == AdvanceNoteIndex(notes, noteIndex, phrase.tick)
             nonempty ==
                /\ index <= Len(notes)
                /\ notes[index][1].tick < phrase.tick + phrase.length
         IN  (IF nonempty THEN << phrase >> ELSE <<>>)
             \o PruneByLengthFrom(Tail(phrases), notes, index)

RECURSIVE PruneFrom(_, _, _)
PruneFrom(phrases, notes, noteIndex) ==
    IF phrases = <<>> THEN <<>>
    ELSE LET phrase == Head(phrases)
             index == AdvanceNoteIndex(notes, noteIndex, phrase.tick)
             nonempty ==
                /\ index <= Len(notes)
                /\ notes[index][1].tick
                     < phrase.tick + (IF phrase.length # 0 THEN phrase.length ELSE 1)
         IN  (IF nonempty THEN << phrase >> ELSE <<>>)
             \o PruneFrom(Tail(phrases), notes, index)

pruneEmptyPhrases(phrases, notes) == PruneFrom(phrases, notes, 1)

\* DataView.setUint32 / setBigInt64 with littleEndian = true: the `size` low
\* bytes of the value, lowest first; higher bytes of the value are dropped.
RECURSIVE LittleEndian(_, _)
LittleEndian(value, size) ==
    IF size = 0 THEN <<>>
    ELSE << value % 256 >> \o LittleEndian(value \div 256, size - 1)

Uint32(value) == LittleEndian(value, 4)
BigInt64(value) == LittleEndian(value, 8)
Uint8(flag) == << IF flag THEN 1 ELSE 0 >>

\* setUint32 of the denominator 2^exponent: byte k holds bit (exponent - 8k);
\* a denominator of 2^32 or more leaves the four bytes zero.
Uint32OfPowerOfTwo(exponent) ==
    [ k \in 1..4 |-> IF exponent \div 8 = k - 1 THEN 2 ^ (exponent % 8) ELSE 0 ]

\* setFloat64 of the tempo. The eight bytes of a double determine the double;
\* the model writes the eight bytes of the tempo's whole number of millibeats
\* per minute in their place.
Float64(millibeatsPerMinute) == LittleEndian(millibeatsPerMinute, 8)

\* setUint32(0, 0x43484e46, false): "CHNF", big endian
FormatHeader == << 67, 72, 78, 70 >>

Records(items, Bytes(_)) == Flatten([ i \in 1..Len(items) |-> Bytes(items[i]) ])

\* A length-prefixed table of fixed-size records.
Table(items, Bytes(_)) == Uint32(Len(items)) \o Records(items, Bytes)

tempoData(parsedChart) == LastMarkerPerTick(parsedChart.tempos)
timeSignatureData(parsedChart) == LastMarkerPerTick(parsedChart.timeSignatures)
starPowerData(trackData) == pruneEmptyPhrases(trackData.starPowerSections, trackData.noteEventGroups)
soloSectionData(trackData) == pruneEmptyPhrases(trackData.soloSections, trackData.noteEventGroups)
flexLanesData(trackData) == pruneEmptyPhrases(trackData.flexLanes, trackData.noteEventGroups)
drumFreestyleSectionData(trackData) == trackData.drumFreestyleSections
notesData(trackData) == Flatten(trackData.noteEventGroups)

VersionNumber == 20240320

\* The records of the seven tables.
TempoBytes(tempo) == BigInt64(tempo.tick) \o Float64(tempo.millibeatsPerMinute)

TimeSignatureBytes(timeSignature) ==
    BigInt64(timeSignature.tick) \o Uint32(timeSignature.numerator)
    \o Uint32OfPowerOfTwo(timeSignature.denominatorExp)

PhraseBytes(phrase) == BigInt64(phrase.tick) \o BigInt64(phrase.length)

FlexLaneBytes(flexLane) ==
    BigInt64(flexLane.tick) \o BigInt64(flexLane.length) \o Uint8(flexLane.isDouble)

DrumFreestyleSectionBytes(drumFreestyleSection) ==
    BigInt64(drumFreestyleSection.tick) \o BigInt64(drumFreestyleSection.length)
    \o Uint8(drumFreestyleSection.isCoda)

\* The record of a note without its flags.
NoteBytesWithoutFlags(note) ==
    BigInt64(note.tick) \o BigInt64(note.length) \o Uint32(note.type) \o Uint32(0)

NoteBytes(note) ==
    BigInt64(note.tick) \o BigInt64(note.length) \o Uint32(note.type) \o Uint32(note.flags)

calculateTrackHash(parsedChart, trackData) ==
    FormatHeader
    \o Uint32(VersionNumber)
    \o Uint32(parsedChart.resolution)
    \o Table(tempoData(parsedChart), TempoBytes)
    \o Table(timeSignatureData(parsedChart), TimeSignatureBytes)
    \o Table(starPowerData(trackData), PhraseBytes)
    \o Table(soloSectionData(trackData), PhraseBytes)
    \o Table(flexLanesData(trackData), FlexLaneBytes)
    \o Table(drumFreestyleSectionData(trackData), DrumFreestyleSectionBytes)
    \o Table(notesData(trackData), NoteBytes)

\* parsedChart.trackData.find(t => t.instrument === instrument &&
\* t.difficulty === difficulty): the first such track of the chart.
FoundTrack(parsedChart, instr, difficulty) ==
    LET matching == SelectSeq(parsedChart.trackData,
                              LAMBDA t : t.instrument = instr /\ t.difficulty = difficulty)
    IN  matching[1]

\* calculateTrackHash(parsedChart, instrument, difficulty) for an instrument
\* and a difficulty that the chart holds.
calculateTrackHashFor(parsedChart, instr, difficulty) ==
    calculateTrackHash(parsedChart, FoundTrack(parsedChart, instr, difficulty))

-----------------------------------------------------------------------------
(* The state machine                                                       *)

NoScan == <<>>

NoChart ==
    [ resolution |-> 0, drumType |-> NoDrumType, endEvents |-> <<>>, tempos |-> <<>>,
      timeSignatures |-> <<>>, sections |-> <<>>, trackData |-> <<>> ]

\* The raw chart with the tracks of the file: those of the instrument
\* tracks of a .mid file written out in MIDI events, and else the one track
\* of `lines`, whose section name (.chart) or note numbers (.mid) give it
\* its difficulty.
RawChartWithTracks(raw) ==
    [ raw EXCEPT !.trackData =
        IF format = "mid" /\ midiTracks # <<>>
        THEN midiTrackData(midiTracks, firstCodaTick(eventLines), iniChartModifiers)
        ELSE [ t \in DOMAIN raw.trackData |->
                 [ raw.trackData[t] EXCEPT !.difficulty = sectionDifficulty ] ] ]

\* The raw chart the format's parser builds from the file.
RawChartOfFile ==
    RawChartWithTracks(
        IF format = "mid"
        THEN parseNotesFromMidi(chartTicksPerBeat, syncTempos, syncTimeSignatures,
                                eventLines, instrument, lines, iniChartModifiers)
        ELSE parseNotesFromChart(chartTicksPerBeat, syncTempos, syncTimeSignatures,
                                 eventLines, instrument, lines))

parseThrows ==
    \/ format = "chart" /\ chartParseThrows(syncTempos, syncTimeSignatures)
    \/ format = "mid" /\ midiParseError(midiFile) # ""

\* What resolveFretModifiers decided for each note group of the track.
FretTraceOf(raw) ==
    IF raw.trackData = <<>> \/ instrument = "drums" THEN <<>>
    ELSE FretResolution(
            TrackEventGroups(raw.trackData[1], iniChartModifiers, chartTicksPerBeat, format),
            iniChartModifiers, chartTicksPerBeat, format)

\* What the parser of the format throws for the file, "" when it returns.
parseError ==
    IF format = "mid" THEN midiParseError(midiFile)
    ELSE IF \E i \in DOMAIN syncTempos : syncTempos[i].millibeatsPerMinute = 0
         THEN "Invalid .chart file: Tempo was zero."
    ELSE IF \E i \in DOMAIN syncTimeSignatures : syncTimeSignatures[i].numerator = 0
         THEN "Invalid .mid file: Time signature numerator was zero."
    ELSE ""

-----------------------------------------------------------------------------
(* scanChart (chart-scanner.ts)                                            *)

\* A file name is kept as its name and its extension: notes.mid is
\* [name |-> "notes", ext |-> "mid"].
hasChartExtension(file) == file.ext \in { "chart", "mid" }

hasChartName(file) == file.name = "notes" /\ file.ext \in { "chart", "mid" }

\* orderBy([hasChartName, extension is mid], ['desc', 'desc'])
ChartFileBefore(a, b) ==
    \/ hasChartName(a) /\ ~hasChartName(b)
    \/ /\ hasChartName(a) = hasChartName(b)
       /\ a.ext = "mid" /\ b.ext # "mid"

NoFormat == "none"      \* format: null

\* findChartData: the chart file scanChart reads and the folder issues of
\* the chart files.
findChartData(files) ==
    LET chartFiles == StableSort(SelectSeq(files, hasChartExtension), ChartFileBefore)
        misnamed == SelectSeq(chartFiles, LAMBDA f : ~hasChartName(f))
        invalidChart == [ i \in DOMAIN misnamed |->
                            [ folderIssue |-> "invalidChart", description |-> misnamed[i] ] ]
        multipleChart == IF Len(chartFiles) > 1
                         THEN << [ folderIssue |-> "multipleChart",
                                   description |-> "This chart has multiple .chart/.mid files." ] >>
                         ELSE <<>>
    IN  IF Len(chartFiles) = 0
        THEN [ format |-> NoFormat,
               folderIssues |-> << [ folderIssue |-> "noChart",
                                     description |-> "This chart doesn't have notes.chart/notes.mid." ] >> ]
        ELSE [ format |-> IF chartFiles[1].ext = "mid" THEN "mid" ELSE "chart",
               folderIssues |-> invalidChart \o multipleChart ]

\* A number of ticks that is n / 2^e, in lowest terms: the bars of a time
\* signature are resolution * 4 * numerator / 2^denominatorExp ticks long.
RECURSIVE Dyadic(_, _)
Dyadic(n, e) ==
    IF e > 0 /\ n % 2 = 0 THEN Dyadic(n \div 2, e - 1) ELSE [ n |-> n, e |-> e ]

BarLength(resolution, timeSignature) ==
    Dyadic(resolution * 4 * timeSignature.numerator, timeSignature.denominatorExp)

\* lastBeatlineTick !== tick and lastBeatlineTick < tick
IsNotTick(lastBeatlineTick, tick) == ~(lastBeatlineTick.e = 0 /\ lastBeatlineTick.n = tick)

IsBeforeTick(lastBeatlineTick, tick) == lastBeatlineTick.n < tick * (2 ^ lastBeatlineTick.e)

\* The while loop: lastBeatlineTick += bar, as long as it is before tick.
AdvanceBeatline(lastBeatlineTick, bar, tick) ==
    LET e == Max(lastBeatlineTick.e, bar.e)
        from == lastBeatlineTick.n * (2 ^ (e - lastBeatlineTick.e))
        step == bar.n * (2 ^ (e - bar.e))
        bars == ((tick * (2 ^ e)) - from + step - 1) \div step
    IN  Dyadic(from + bars * step, e)

\* The misalignedTimeSignature loop that lets a misaligned marker stay in
\* the list, so that it becomes the active signature.
RECURSIVE MisalignedWithoutRemovalFrom(_, _, _, _, _)
MisalignedWithoutRemovalFrom(timeSignatures, i, lastBeatlineTick, resolution, msTimes) ==
    IF i > Len(timeSignatures) THEN [ msTimes |-> msTimes, hangs |-> FALSE ]
    ELSE LET misaligned == IsNotTick(lastBeatlineTick, timeSignatures[i].tick)
             found == IF misaligned THEN Append(msTimes, timeSignatures[i].msTime)
                      ELSE msTimes
             advances == /\ i + 1 <= Len(timeSignatures)
                         /\ IsBeforeTick(lastBeatlineTick, timeSignatures[i + 1].tick)
             bar == BarLength(resolution, timeSignatures[i])
         IN  IF advances /\ bar.n = 0 THEN [ msTimes |-> found, hangs |-> TRUE ]
             ELSE MisalignedWithoutRemovalFrom(
                      timeSignatures, i + 1,
                      IF advances
                      THEN AdvanceBeatline(lastBeatlineTick, bar, timeSignatures[i + 1].tick)
                      ELSE lastBeatlineTick,
                      resolution, found)

\* The misalignedTimeSignature loop of findChartIssues from its index i on
\* (i counts from 1): the msTimes of the issues it adds; it never ends when
\* it has to advance by bars of length 0.
RECURSIVE MisalignedFrom(_, _, _, _, _)
MisalignedFrom(timeSignatures, i, lastBeatlineTick, resolution, msTimes) ==
    IF i > Len(timeSignatures) THEN [ msTimes |-> msTimes, hangs |-> FALSE ]
    ELSE LET misaligned == IsNotTick(lastBeatlineTick, timeSignatures[i].tick)
             found == IF misaligned THEN Append(msTimes, timeSignatures[i].msTime)
                      ELSE msTimes
             kept == IF misaligned THEN pullAt(timeSignatures, i) ELSE timeSignatures
             k == IF misaligned THEN i - 1 ELSE i
             advances == /\ k + 1 <= Len(kept)
                         /\ IsBeforeTick(lastBeatlineTick, kept[k + 1].tick)
             bar == BarLength(resolution, kept[k])
         IN  IF advances /\ bar.n = 0 THEN [ msTimes |-> found, hangs |-> TRUE ]
             ELSE MisalignedFrom(
                      kept, k + 1,
                      IF advances THEN AdvanceBeatline(lastBeatlineTick, bar, kept[k + 1].tick)
                      ELSE lastBeatlineTick,
                      resolution, found)

misalignedTimeSignature(chartData) ==
    MisalignedFrom(chartData.timeSignatures, 1, Dyadic(0, 0), chartData.resolution, <<>>)

\* typeCount(noteGroup, types): the notes of the group whose type is one of
\* `types`
typeCount(noteGroup, types) ==
    Cardinality({ n \in DOMAIN noteGroup : noteGroup[n].type \in types })

\* The difficultyForbiddenNote block of findChartIssues for one note group
\* of a track: how many issues it adds for the group.
difficultyForbiddenNote(instrumentType, trackDifficulty, noteGroup) ==
    LET nonKickDrumNoteTypes == { noteTypes.greenDrum, noteTypes.redDrum,
                                  noteTypes.yellowDrum, noteTypes.blueDrum }
        kickDrumNoteTypes == { noteTypes.kick }
        greenBlueChordTypes == { noteTypes.green, noteTypes.blue }
        greenOrangeChordTypes == { noteTypes.green, noteTypes.orange }
        orangeType == { noteTypes.orange }
        orangeBlueTypes == { noteTypes.orange, noteTypes.blue }
        blackTypes == { noteTypes.black1, noteTypes.black2, noteTypes.black3 }
        whiteTypes == { noteTypes.white1, noteTypes.white2, noteTypes.white3 }
        white12Type == { noteTypes.white1, noteTypes.white2 }
        white23Type == { noteTypes.white2, noteTypes.white3 }
        oneTypes == { noteTypes.black1, noteTypes.white1 }
        twoTypes == { noteTypes.black2, noteTypes.white2 }
        threeTypes == { noteTypes.black3, noteTypes.white3 }
        Issue(flagged) == IF flagged THEN 1 ELSE 0
    IN  IF instrumentType = instrumentTypes.drums
        THEN (IF trackDifficulty # "expert"
              THEN Cardinality({ n \in DOMAIN noteGroup :
                                   HasBit(noteGroup[n].flags, noteFlags.doubleKick) })
              ELSE 0)
             + Issue(/\ trackDifficulty = "easy"
                     /\ typeCount(noteGroup, nonKickDrumNoteTypes) = 2
                     /\ typeCount(noteGroup, kickDrumNoteTypes) > 0)
        ELSE IF instrumentType = instrumentTypes.fiveFret
        THEN CASE trackDifficulty = "hard" ->
                    Issue(typeCount(noteGroup, greenOrangeChordTypes) = 2)
               [] trackDifficulty = "medium" ->
                    Issue(\/ typeCount(noteGroup, orangeType) > 0
                          \/ typeCount(noteGroup, greenBlueChordTypes) = 2)
               [] trackDifficulty = "easy" ->
                    Issue(typeCount(noteGroup, orangeBlueTypes) > 0)
               [] OTHER -> 0
        ELSE CASE trackDifficulty = "hard" ->
                    Issue(/\ Len(noteGroup) = 3
                          /\ \/ typeCount(noteGroup, blackTypes) < 3
                             \/ typeCount(noteGroup, whiteTypes) < 3)
               [] trackDifficulty = "medium" ->
                    Issue(\/ Len(noteGroup) = 3
                          \/ /\ Len(noteGroup) = 2
                             /\ typeCount(noteGroup, blackTypes) > 0
                             /\ typeCount(noteGroup, whiteTypes) > 0
                             /\ typeCount(noteGroup, oneTypes) < 2
                             /\ typeCount(noteGroup, twoTypes) < 2
                             /\ typeCount(noteGroup, threeTypes) < 2)
               [] trackDifficulty = "easy" ->
                    Issue(\/ Len(noteGroup) = 3
                          \/ /\ Len(noteGroup) = 2
                             /\ ~ \/ typeCount(noteGroup, white12Type) = 2
                                  \/ typeCount(noteGroup, white23Type) = 2)
               [] OTHER -> 0

\* The difficultyForbiddenNote issues of the note groups of a track from
\* group g on, in the order findChartIssues adds them.
RECURSIVE ForbiddenNotesFrom(_, _)
ForbiddenNotesFrom(track, g) ==
    IF g > Len(track.noteEventGroups) THEN <<>>
    ELSE LET noteGroup == track.noteEventGroups[g]
             count == difficultyForbiddenNote(getInstrumentType(track.instrument),
                                              track.difficulty, noteGroup)
         IN  [ k \in 1..count |->
                 [ instrument |-> track.instrument, difficulty |-> track.difficulty,
                   noteIssue |-> "difficultyForbiddenNote",
                   msTime |-> noteGroup[1].msTime ] ]
             \o ForbiddenNotesFrom(track, g + 1)

\* findChartIssues, of which the misalignedTimeSignature and the
\* difficultyForbiddenNote issues are kept.
findChartIssues(chartData) ==
    LET msTimes == misalignedTimeSignature(chartData).msTimes
    IN  [ i \in DOMAIN msTimes |->
            [ instrument |-> "null", difficulty |-> "null",
              noteIssue |-> "misalignedTimeSignature", msTime |-> msTimes[i] ] ]
        \o Flatten([ t \in DOMAIN chartData.trackData |->
                       ForbiddenNotesFrom(chartData.trackData[t], 1) ])

\* The metadata of the chart file, which are not modelled.
NoMetadata == <<>>

\* null, and a value that is not null
Null == <<>>

NotNull(value) == << value >>

\* getChartHash hashes the bytes of the chart file and the modifiers.
getChartHash(modifiers) ==
    [ chartBytes |-> [ format |-> format, resolution |-> chartTicksPerBeat,
                       syncTrack |-> << syncTempos, syncTimeSignatures >>,
                       events |-> eventLines, track |-> lines,
                       section |-> << instrument, sectionDifficulty >>, tracks |-> midiTracks ],
      iniChartModifiers |-> modifiers ]

\* The notesData of scanChart for the parsed chart `result`.
scanNotesData(result) ==
    [ instruments |-> { result.trackData[t].instrument : t \in DOMAIN result.trackData },
      drumType |-> result.drumType,
      chartIssues |-> findChartIssues(result),
      trackHashes |-> [ t \in DOMAIN result.trackData |->
                          calculateTrackHashFor(result, result.trackData[t].instrument,
                                                result.trackData[t].difficulty) ],
      tempoMarkerCount |-> Len(result.tempos) ]

\* What scanChart returns from its try block.
scanResult(found, result, modifiers) ==
    [ chartHash |-> NotNull(getChartHash(modifiers)),
      notesData |-> NotNull(scanNotesData(result)),
      metadata |-> NotNull(NoMetadata),
      folderIssues |-> found.folderIssues ]

\* scanChart whose catch block returns the folder issues without adding
\* the badChart issue.
scanChartSilentCatchOf(found, error, result, modifiers) ==
    IF found.format = NoFormat \/ error # ""
    THEN [ chartHash |-> Null, notesData |-> Null, metadata |-> Null,
           folderIssues |-> found.folderIssues ]
    ELSE scanResult(found, result, modifiers)

\* scanChart from the chart file that findChartData found on: `error` is
\* the message of the error the parser throws ("" when it throws none),
\* `result` the chart it returns.
scanChartOf(found, error, result, modifiers) ==
    IF found.format = NoFormat
    THEN [ chartHash |-> Null, notesData |-> Null, metadata |-> Null,
           folderIssues |-> found.folderIssues ]
    ELSE IF error # ""
    THEN [ chartHash |-> Null, notesData |-> Null, metadata |-> Null,
           folderIssues |-> Append(found.folderIssues,
                                   [ folderIssue |-> "badChart", description |-> error ]) ]
    ELSE scanResult(found, result, modifiers)

\* scanChart(files, iniChartModifiers): what it returns for the chart file
\* findChartData selects, whose content is the modelled chart.
scanChart(files, modifiers) ==
    scanChartOf(findChartData(files), parseError,
                parseChartFile(RawChartOfFile, format, modifiers), modifiers)

\* findChartIssues never returns: scanChart does not return either.
scanChartHangsOn(found, error, result) ==
    /\ found.format # NoFormat
    /\ error = ""
    /\ misalignedTimeSignature(result).hangs

scanChartHangs ==
    scanChartHangsOn(findChartData(fileNames), parseError,
                     parseChartFile(RawChartOfFile, format, iniChartModifiers))

\* parseChartFile on the raw chart `raw` of the chart file, with the trace
\* of its fret modifier resolution.
ParseRawChart(raw) ==
    /\ parsed' = parseChartFile(raw, format, iniChartModifiers)
    /\ fretTrace' = FretTraceOf(raw)

\* parseChartFile(data, format, iniChartModifiers) on the chart file of the
\* folder
ParseChartFile ==
    /\ pc = "file"
    /\ findChartData(fileNames).format = format
    /\ IF parseThrows
       THEN /\ pc' = "error"
            /\ UNCHANGED <<parsed, fretTrace>>
       ELSE /\ pc' = "parsed"
            /\ ParseRawChart(RawChartOfFile)
    /\ UNCHANGED <<inputVars, btrack, scan>>

\* calculateTrackHash(parsedChart, instrument, difficulty) for the
\* instrument and the difficulty of a track of the parsed chart.
CalculateTrackHash ==
    /\ pc = "parsed"
    /\ \E t \in DOMAIN parsed.trackData :
          btrack' = calculateTrackHashFor(parsed, parsed.trackData[t].instrument,
                                          parsed.trackData[t].difficulty)
    /\ pc' = "hashed"
    /\ UNCHANGED <<inputVars, parsed, fretTrace, scan>>

\* scanChart from the chart `result` parseChartFile returns for the chart
\* file: scanChartOf, unless scanChartHangsOn.
ScanParsedChart(found, error, result) ==
    /\ ~scanChartHangsOn(found, error, result)
    /\ scan' = scanChartOf(found, error, result, iniChartModifiers)

\* scanChart(files, iniChartModifiers) on the folder of the chart; it has
\* no result when findChartIssues does not end.
ScanChart ==
    /\ pc = "file"
    /\ ScanParsedChart(findChartData(fileNames), parseError,
                       parseChartFile(RawChartOfFile, format, iniChartModifiers))
    /\ pc' = "scanned"
    /\ UNCHANGED <<inputVars, parsed, fretTrace, btrack>>

Next == ParseChartFile \/ CalculateTrackHash \/ ScanChart

-----------------------------------------------------------------------------
(* The charts the model reads                                              *)

MaxTick == 3            \* events lie on ticks 0..MaxTick
MaxLength == 3          \* and are 0..MaxLength ticks long
MaxEvents == 3          \* events of a track
SnapThreshold == 2      \* the non-default chord_snap_threshold

SeqsUpTo(S, n) == UNION { [1..k -> S] : k \in 0..n }

IsTickSorted(s) == \A i \in 1..(Len(s) - 1) : s[i].tick <= s[i + 1].tick

\* Nothing has been parsed yet.
Unparsed ==
    /\ pc = "file"
    /\ parsed = NoChart
    /\ fretTrace = <<>>
    /\ btrack = <<>>
    /\ scan = NoScan

\* A .mid container of format 1 with metrical timing, a tempo track and an
\* instrument track, and no SysEx events.
PlainMidiFile ==
    [ header |-> [ format |-> 1, smpte |-> FALSE ], tracks |-> 2, sysEx |-> <<>> ]

\* A folder that holds the chart as notes.chart or notes.mid and nothing
\* else.
PlainFolder ==
    /\ fileNames = << [ name |-> "notes", ext |-> format ] >>
    /\ midiFile = PlainMidiFile

\* A file with the one track of `lines`, in difficulty expert.
OneExpertTrack ==
    /\ sectionDifficulty = "expert"
    /\ midiTracks = <<>>

\* A file without SyncTrack or Events content: both parsers then supply
\* 120 BPM and 4/4 at tick 0.
NoSyncTrack ==
    /\ syncTempos = <<>>
    /\ syncTimeSignatures = <<>>
    /\ eventLines = <<>>

\* A .chart file keeps its lines in file order; the events of a .mid track
\* come in tick order out of the MIDI parser.
FileOrder(fmt, s) == fmt = "chart" \/ IsTickSorted(s)

NoteLines ==
    [ tick : 0..MaxTick, length : 0..MaxLength,
      type : { eventTypes.green, eventTypes.red } ]

\* Guitar tracks of plain notes, with and without chord snapping.
InitNotes ==
    /\ Unparsed
    /\ NoSyncTrack
    /\ format \in { "chart", "mid" }
    /\ instrument = "guitar"
    /\ chartTicksPerBeat = 2
    /\ \E snap \in { 0, SnapThreshold } :
          iniChartModifiers = [ defaultIniChartModifiers EXCEPT !.chord_snap_threshold = snap ]
    /\ lines \in SeqsUpTo(NoteLines, MaxEvents)
    /\ FileOrder(format, lines)
    /\ PlainFolder
    /\ OneExpertTrack

Init == InitNotes

Spec == Init /\ [][Next]_vars

MaxPhrases == 3         \* phrase events of a track

\* The phrase events a file can hold for one kind of phrase. A .chart file
\* marks a solo by a start and an end event; a .mid file by one note.
PhraseLines(kind, fmt) ==
    IF kind = "solo" /\ fmt = "chart"
    THEN [ tick : 0..MaxTick, length : { 0 },
           type : { eventTypes.soloSectionStart, eventTypes.soloSectionEnd } ]
    ELSE [ tick : 0..MaxTick, length : 0..MaxLength,
           type : CASE kind = "starPower" -> { eventTypes.starPower }
                    [] kind = "solo" -> { eventTypes.soloSection }
                    [] kind = "flexLanes" -> { eventTypes.flexLaneSingle,
                                               eventTypes.flexLaneDouble }
                    [] kind = "freestyle" -> { eventTypes.freestyleSection } ]

\* The note at tick 0 that a track of phrases is given, so that the .mid
\* parser keeps the track.
FirstNote(instr) ==
    [ tick |-> 0, length |-> 0,
      type |-> IF instr = "drums" THEN eventTypes.kick ELSE eventTypes.green ]

\* Tracks of one note and up to MaxPhrases phrases of one kind.
InitPhrases ==
    /\ Unparsed
    /\ syncTempos = <<>>
    /\ syncTimeSignatures = <<>>
    /\ format \in { "chart", "mid" }
    /\ chartTicksPerBeat = 2
    /\ iniChartModifiers = defaultIniChartModifiers
    /\ \E kind \in { "starPower", "solo", "flexLanes", "freestyle" } :
          /\ instrument = IF kind \in { "flexLanes", "freestyle" } THEN "drums" ELSE "guitar"
          /\ eventLines \in IF kind = "freestyle"
                            THEN { <<>>, << [tick |-> 1, text |-> "coda"] >> }
                            ELSE { <<>> }
          /\ \E phrases \in SeqsUpTo(PhraseLines(kind, format), MaxPhrases) :
                lines = << FirstNote(instrument) >> \o phrases
    /\ FileOrder(format, lines)
    /\ PlainFolder
    /\ OneExpertTrack

SpecPhrases == InitPhrases /\ [][Next]_vars

MaxMarkers == 2         \* tempo markers and global events of a file

TempoLines(fmt) ==
    [ tick : 0..MaxTick,
      millibeatsPerMinute : IF fmt = "chart" THEN { 0, 60000, 120000 }
                            ELSE { 60000, 120000 } ]

GlobalEventLines == [ tick : 0..MaxTick, text : { "section", "end" } ]

\* Files with a SyncTrack and global events around a track of one note. A
\* .chart file may hold a zero tempo, which its parser rejects; the tempo of
\* a .mid file is 60000000 / microsecondsPerBeat and never zero.
InitTiming ==
    /\ Unparsed
    /\ format \in { "chart", "mid" }
    /\ instrument = "guitar"
    /\ chartTicksPerBeat = 1
    /\ iniChartModifiers = defaultIniChartModifiers
    /\ syncTempos \in SeqsUpTo(TempoLines(format), MaxMarkers)
    /\ syncTimeSignatures \in
          { <<>>, << [tick |-> MaxTick, numerator |-> 4, denominatorExp |-> 2] >> }
    /\ eventLines \in SeqsUpTo(GlobalEventLines, MaxMarkers)
    /\ \E t \in 0..MaxTick : lines = << [tick |-> t, length |-> 0, type |-> eventTypes.green] >>
    /\ FileOrder(format, syncTempos)
    /\ FileOrder(format, eventLines)
    /\ \A i \in DOMAIN syncTempos :
          syncTempos[i].millibeatsPerMinute # 0
              => ExactTempo(syncTempos[i].millibeatsPerMinute, chartTicksPerBeat)
    /\ PlainFolder
    /\ OneExpertTrack

SpecTiming == InitTiming /\ [][Next]_vars

MaxGap == 7             \* ticks between two note groups

FretColours == { eventTypes.green, eventTypes.red, eventTypes.yellow }

\* The modifiers each parser can put on a fret note group: a .chart file
\* only has N 5 (forceUnnatural) and N 6 (forceTap); a .mid track has the
\* force HOPO / force strum notes, the tap and the open SysEx events.
FretModifiers(fmt) ==
    IF fmt = "chart"
    THEN { eventTypes.forceUnnatural, eventTypes.forceTap }
    ELSE { eventTypes.forceTap, eventTypes.forceStrum, eventTypes.forceHopo,
           eventTypes.forceOpen }

\* The events of the given types on one tick, in ascending order of type.
EventsAt(tick, types) ==
    LET order == Ascending(types)
    IN  [ k \in DOMAIN order |-> [tick |-> tick, length |-> 0, type |-> order[k]] ]

Chords == { c \in SUBSET FretColours : Cardinality(c) \in { 1, 2 } }

\* Two fret note groups `gap` ticks apart, the second with any modifiers of
\* the format, under the given resolution.
TwoFretGroups(gaps) ==
    /\ Unparsed
    /\ instrument = "guitar"
    /\ syncTimeSignatures = <<>>
    /\ eventLines = <<>>
    /\ \E previous \in Chords, this \in Chords, gap \in gaps :
       \E previousOpen \in IF format = "mid" THEN BOOLEAN ELSE { FALSE } :
       \E modifiers \in SUBSET FretModifiers(format) :
          lines = EventsAt(0, previous
                              \cup IF previousOpen THEN { eventTypes.forceOpen } ELSE {})
                  \o EventsAt(gap, this \cup modifiers)

InitFret ==
    /\ \/ /\ format \in { "chart", "mid" }
          /\ chartTicksPerBeat = 10
          /\ syncTempos = <<>>
          /\ \E frequency \in { 0, 2 }, eighth \in BOOLEAN :
                iniChartModifiers = [ defaultIniChartModifiers EXCEPT
                                        !.hopo_frequency = frequency,
                                        !.eighthnote_hopo = eighth ]
          /\ TwoFretGroups(1..MaxGap)
       \/ /\ format = "chart"
          /\ chartTicksPerBeat = 192
          /\ syncTempos = << [tick |-> 0, millibeatsPerMinute |-> 312500] >>
          /\ iniChartModifiers = defaultIniChartModifiers
          /\ TwoFretGroups({ 64, 65, 66, 192 })
    /\ PlainFolder
    /\ OneExpertTrack

SpecFret == InitFret /\ [][Next]_vars

MaxHashTick == 2        \* ticks and lengths of the charts that are serialised

HashPhraseLines(kind, fmt) ==
    { e \in PhraseLines(kind, fmt) : e.tick <= MaxHashTick /\ e.length <= MaxHashTick }

HashNoteLines(instr) ==
    { [ FirstNote(instr) EXCEPT !.tick = t ] : t \in 0..MaxHashTick }

\* Files for the serialiser: either a SyncTrack with several tempo markers
\* and time signatures (some on one tick; in a .chart file, whose denominator
\* is 2 to any written exponent, some of 2^32) around a single note, or a
\* track of up to two phrases of one kind and up to two notes.
InitHash ==
    /\ Unparsed
    /\ format \in { "chart", "mid" }
    /\ chartTicksPerBeat = 1
    /\ iniChartModifiers = defaultIniChartModifiers
    /\ \/ /\ instrument = "guitar"
          /\ eventLines = <<>>
          /\ lines = << FirstNote(instrument) >>
          /\ syncTempos \in
                SeqsUpTo([ tick : 0..1, millibeatsPerMinute : { 60000, 120000 } ], 3)
          /\ syncTimeSignatures \in
                SeqsUpTo([ tick : 0..1, numerator : { 4 }, denominatorExp : { 2, 32 } ], 2)
          /\ FileOrder(format, syncTempos)
          /\ FileOrder(format, syncTimeSignatures)
          /\ format = "mid" =>
                \A i \in DOMAIN syncTimeSignatures : syncTimeSignatures[i].denominatorExp < 32
       \/ /\ syncTempos = <<>>
          /\ syncTimeSignatures = <<>>
          /\ \E kind \in { "starPower", "solo", "flexLanes", "freestyle" } :
                /\ instrument = IF kind \in { "flexLanes", "freestyle" }
                                THEN "drums" ELSE "guitar"
                /\ eventLines \in IF kind = "freestyle"
                                  THEN { <<>>, << [tick |-> 1, text |-> "coda"] >> }
                                  ELSE { <<>> }
                /\ \E phrases \in SeqsUpTo(HashPhraseLines(kind, format),
                                           IF kind = "solo" /\ format = "chart" THEN 3 ELSE 2),
                      notes \in SeqsUpTo(HashNoteLines(instrument), 2) :
                      lines = IF format = "mid" THEN OrderByTick(notes \o phrases)
                              ELSE notes \o phrases
    /\ PlainFolder
    /\ OneExpertTrack

SpecHash == InitHash /\ [][Next]_vars

MaxSustain == 4         \* sustains of the cutoff charts are 0..MaxSustain ticks long
MaxCutoff == 2          \* sustain_cutoff_threshold ranges over -2..MaxCutoff
SustainResolution == 6  \* ticks per beat of the cutoff charts

SustainLines ==
    [ tick : { 0, SustainResolution }, length : 0..MaxSustain,
      type : { eventTypes.green, eventTypes.red } ]

\* Guitar tracks of at most two notes under every sustain_cutoff_threshold
\* around the -1 of the defaults.
InitSustain ==
    /\ Unparsed
    /\ NoSyncTrack
    /\ format \in { "chart", "mid" }
    /\ instrument = "guitar"
    /\ chartTicksPerBeat = SustainResolution
    /\ \E cutoff \in (-2)..MaxCutoff :
          iniChartModifiers =
              [ defaultIniChartModifiers EXCEPT !.sustain_cutoff_threshold = cutoff ]
    /\ lines \in SeqsUpTo(SustainLines, 2)
    /\ FileOrder(format, lines)
    /\ PlainFolder
    /\ OneExpertTrack

SpecSustain == InitSustain /\ [][Next]_vars

MaxLegacyPhrases == 3   \* star power and solo phrases of a legacy .mid track

LegacyPhraseLines ==
    [ tick : 0..MaxTick, length : { 1 },
      type : { eventTypes.starPower, eventTypes.soloSection } ]

LegacyFirstNote(instr) ==
    [ tick |-> 0, length |-> 0,
      type |-> CASE instr = "drums" -> eventTypes.kick
                 [] instr = "guitarghl" -> eventTypes.white1
                 [] OTHER -> eventTypes.green ]

\* .mid tracks of one note with star power (note 116) and solo (note 103)
\* phrases, read under every kind of multiplier_note.
InitLegacy ==
    /\ Unparsed
    /\ NoSyncTrack
    /\ format = "mid"
    /\ instrument \in { "guitar", "guitarghl", "drums" }
    /\ chartTicksPerBeat = 2
    /\ \E note \in { 0, 103, 116, 5 } :
          iniChartModifiers = [ defaultIniChartModifiers EXCEPT !.multiplier_note = note ]
    /\ \E phrases \in SeqsUpTo(LegacyPhraseLines, MaxLegacyPhrases) :
          lines = << LegacyFirstNote(instrument) >> \o phrases
    /\ FileOrder(format, lines)
    /\ PlainFolder
    /\ OneExpertTrack

SpecLegacy == InitLegacy /\ [][Next]_vars

\* The time signature markers of a SyncTrack; a marker may have the
\* numerator 0 in the file of either format.
TimeSignatureLines ==
    [ tick : 0..MaxTick, numerator : { 0, 3, 4 }, denominatorExp : { 2 } ]

\* Files with up to MaxMarkers tempo markers and up to MaxMarkers time
\* signature markers around a track of one note. The markers of a .chart
\* file come in any order.
InitSync ==
    /\ Unparsed
    /\ format \in { "chart", "mid" }
    /\ instrument = "guitar"
    /\ chartTicksPerBeat = 1
    /\ iniChartModifiers = defaultIniChartModifiers
    /\ syncTempos \in SeqsUpTo(TempoLines(format), MaxMarkers)
    /\ syncTimeSignatures \in SeqsUpTo(TimeSignatureLines, MaxMarkers)
    /\ eventLines = <<>>
    /\ lines = << [tick |-> 0, length |-> 0, type |-> eventTypes.green] >>
    /\ FileOrder(format, syncTempos)
    /\ FileOrder(format, syncTimeSignatures)
    /\ PlainFolder
    /\ OneExpertTrack

SpecSync == InitSync /\ [][Next]_vars

MaxSysEx == 2           \* Phase Shift SysEx events of the instrument track

\* Phase Shift SysEx events (50 53 00 00 <difficulty> <type> <on>): the
\* difficulty byte is 0..3 or 0xff for all difficulties in the files that
\* editors write, the type 0x01 (open) or 0x04 (tap).
SysExEvents == [ difficulty : { 0, 3, 4, 255 }, type : { 1, 2, 4 }, on : { 0, 1 } ]

\* Decoded .mid files of every header format, with metrical or SMPTE timing
\* and zero, one or two tracks, the second being PART GUITAR with at most
\* one note and SysEx events after it, where they modify no note.
InitMidi ==
    /\ Unparsed
    /\ NoSyncTrack
    /\ format = "mid"
    /\ fileNames = << [ name |-> "notes", ext |-> "mid" ] >>
    /\ instrument = "guitar"
    /\ chartTicksPerBeat = 2
    /\ iniChartModifiers = defaultIniChartModifiers
    /\ \E headerFormat \in 0..2, smpte \in BOOLEAN, tracks \in 0..2 :
          \E sysEx \in IF tracks = 2 THEN SeqsUpTo(SysExEvents, MaxSysEx) ELSE { <<>> } :
             midiFile = [ header |-> [ format |-> headerFormat, smpte |-> smpte ],
                          tracks |-> tracks, sysEx |-> sysEx ]
    /\ lines \in IF midiFile.tracks = 2
                 THEN { <<>> } \cup { << [tick |-> t, length |-> 1, type |-> eventTypes.green] >> :
                                        t \in 0..1 }
                 ELSE { <<>> }
    /\ OneExpertTrack

SpecMidi == InitMidi /\ [][Next]_vars

\* The files a chart folder may hold besides or instead of the chart.
FolderFiles ==
    { [ name |-> "notes", ext |-> "chart" ], [ name |-> "notes", ext |-> "mid" ],
      [ name |-> "song", ext |-> "chart" ], [ name |-> "song", ext |-> "ini" ] }

MaxFiles == 3           \* files of a chart folder

\* Chart folders of up to MaxFiles files. The chart file scanChart selects
\* holds one note or none and is well-formed, or has a zero tempo or a zero
\* numerator (.chart), or a header format 0 or a SysEx event for an unknown
\* difficulty (.mid). A folder without a chart file has no chart content.
InitFolder ==
    /\ Unparsed
    /\ fileNames \in SeqsUpTo(FolderFiles, MaxFiles)
    /\ format = IF findChartData(fileNames).format = "mid" THEN "mid" ELSE "chart"
    /\ instrument = "guitar"
    /\ chartTicksPerBeat = 1
    /\ iniChartModifiers = defaultIniChartModifiers
    /\ eventLines = <<>>
    /\ lines \in IF findChartData(fileNames).format = NoFormat THEN { <<>> }
                 ELSE { <<>>, << [tick |-> 0, length |-> 0, type |-> eventTypes.green] >> }
    /\ syncTempos \in IF findChartData(fileNames).format = "chart"
                      THEN { <<>>, << [tick |-> 0, millibeatsPerMinute |-> 0] >> }
                      ELSE { <<>> }
    /\ syncTimeSignatures \in
          IF findChartData(fileNames).format = "chart"
          THEN { <<>>, << [tick |-> 0, numerator |-> 3, denominatorExp |-> 2],
                          [tick |-> 2, numerator |-> 0, denominatorExp |-> 2] >> }
          ELSE IF format = "mid"
          THEN { <<>>, << [tick |-> 0, numerator |-> 3, denominatorExp |-> 2],
                          [tick |-> 2, numerator |-> 4, denominatorExp |-> 2] >> }
          ELSE { <<>> }
    /\ midiFile \in
          IF format = "mid"
          THEN { PlainMidiFile,
                 [ PlainMidiFile EXCEPT !.header.format = 0 ],
                 [ PlainMidiFile EXCEPT !.sysEx = << [difficulty |-> 4, type |-> 1, on |-> 1] >> ] }
          ELSE { PlainMidiFile }
    /\ OneExpertTrack

SpecFolder == InitFolder /\ [][Next]_vars

MaxBarTick == 4         \* time signature markers lie on ticks 0..MaxBarTick
MaxBarMarkers == 3      \* time signature markers of a file

BarLines ==
    [ tick : 0..MaxBarTick, numerator : { 3, 4 }, denominatorExp : { 2, 3 } ]

\* Files with up to MaxBarMarkers time signature markers around a track of
\* one note: at one tick per beat, where a bar is 4, 3, 2 or 1.5 ticks long,
\* and at 480 ticks per beat under a tempo of 125 beats per minute, where a
\* tick lasts one millisecond. The markers of a .chart file come in any
\* order.
InitBars ==
    /\ Unparsed
    /\ format \in { "chart", "mid" }
    /\ instrument = "guitar"
    /\ iniChartModifiers = defaultIniChartModifiers
    /\ \/ /\ chartTicksPerBeat = 1
          /\ syncTempos = <<>>
          /\ syncTimeSignatures \in SeqsUpTo(BarLines, MaxBarMarkers)
       \/ /\ chartTicksPerBeat = 480
          /\ syncTempos = << [tick |-> 0, millibeatsPerMinute |-> 125000] >>
          /\ syncTimeSignatures \in SeqsUpTo(BarLines, MaxBarMarkers - 1)
    /\ eventLines = <<>>
    /\ lines = << [tick |-> 0, length |-> 0, type |-> eventTypes.green] >>
    /\ FileOrder(format, syncTimeSignatures)
    /\ PlainFolder
    /\ OneExpertTrack

SpecBars == InitBars /\ [][Next]_vars

SixFretTypes ==
    { eventTypes.open, eventTypes.white1, eventTypes.white2, eventTypes.white3,
      eventTypes.black1, eventTypes.black2, eventTypes.black3 }

SixFretChords == { c \in SUBSET SixFretTypes : Cardinality(c) \in 1..3 }

\* 6-fret tracks of every difficulty with a group of one to three notes on
\* tick 0 and at most one more group on tick 1.
InitForbidden ==
    /\ Unparsed
    /\ NoSyncTrack
    /\ format \in { "chart", "mid" }
    /\ instrument = "guitarghl"
    /\ sectionDifficulty \in Range(difficulties)
    /\ midiTracks = <<>>
    /\ chartTicksPerBeat = 2
    /\ iniChartModifiers = defaultIniChartModifiers
    /\ \E first \in SixFretChords :
       \E second \in { {}, { eventTypes.black1 },
                       { eventTypes.white1, eventTypes.white2, eventTypes.white3 },
                       { eventTypes.white1, eventTypes.black1, eventTypes.white2 } } :
          lines = EventsAt(0, first) \o EventsAt(1, second)
    /\ PlainFolder

SpecForbidden == InitForbidden /\ [][Next]_vars

MaxMidiTick == 3        \* the events of a .mid track lie on ticks 0..MaxMidiTick
MaxMidiEvents == 4      \* note events of a .mid track

\* The note-on and note-off events of the MIDI notes `notes` on the
\* channels 0 and 1, with deltaTime already absolute.
MidiNoteEvents(notes, ticks) ==
    [ deltaTime : ticks, type : { "noteOn", "noteOff" }, noteNumber : notes,
      velocity : { 100 }, channel : { 0, 1 } ]

IsDeltaTimeSorted(s) == \A i \in 1..(Len(s) - 1) : s[i].deltaTime <= s[i + 1].deltaTime

\* A .mid file whose instrument tracks are `tracks`, without tempo track
\* events.
MidiFileOf(tracks) ==
    /\ Unparsed
    /\ NoSyncTrack
    /\ format = "mid"
    /\ chartTicksPerBeat = 2
    /\ lines = <<>>
    /\ sectionDifficulty = "expert"
    /\ midiTracks = tracks
    /\ PlainFolder

\* .mid guitar tracks of note-on and note-off events in any succession:
\* of expert green on two channels, or of expert green, expert red and hard
\* green on two ticks.
InitPairing ==
    /\ instrument = "guitar"
    /\ iniChartModifiers = defaultIniChartModifiers
    /\ \E events \in SeqsUpTo(MidiNoteEvents({ 96 }, 0..MaxMidiTick), MaxMidiEvents)
                     \cup SeqsUpTo(MidiNoteEvents({ 96, 97, 84 }, 0..1), MaxMidiEvents - 1) :
          /\ IsDeltaTimeSorted(events)
          /\ MidiFileOf(<< [ trackName |-> "PART GUITAR", trackEvents |-> events ] >>)

SpecPairing == InitPairing /\ [][Next]_vars

MaxSpans == 3           \* notes and sustained modifiers of a .mid track,
MaxSpanTick == 2        \* which start on ticks 0..MaxSpanTick;
MaxSpanLength == 2      \* the modifiers are 0..MaxSpanLength ticks long

\* A MIDI note held from `tick` for `length` ticks: its note-on and its
\* note-off event.
SpanEvents(span) ==
    << [ deltaTime |-> span.tick, type |-> "noteOn", noteNumber |-> span.noteNumber,
         velocity |-> span.velocity, channel |-> 0 ],
       [ deltaTime |-> span.tick + span.length, type |-> "noteOff",
         noteNumber |-> span.noteNumber, velocity |-> 0, channel |-> 0 ] >>

\* The events in the order of their ticks, as they lie in a track.
MidiOrder(events) == StableSort(events, LAMBDA a, b : a.deltaTime < b.deltaTime)

\* The events of a track that holds the spans, in the order of their ticks.
EventsOfSpans(spans) == MidiOrder(Flatten([ k \in DOMAIN spans |-> SpanEvents(spans[k]) ]))

\* The Phase Shift SysEx event 50 53 00 00 <difficulty> <type> <on>
PhaseShiftEvent(tick, difficultyByte, typeByte, onByte) ==
    [ deltaTime |-> tick, type |-> "sysEx",
      data |-> [ difficulty |-> difficultyByte, type |-> typeByte, on |-> onByte ] ]

Spans(notes, ticks, lengths, velocities) ==
    [ noteNumber : notes, tick : ticks, length : lengths, velocity : velocities ]

\* The spans, with every span of the MIDI note `noteNumber` followed by a
\* span of the note above it: a chord.
WithChords(spans, noteNumber) ==
    Flatten([ k \in DOMAIN spans |->
                IF spans[k].noteNumber = noteNumber
                THEN << spans[k], [ spans[k] EXCEPT !.noteNumber = noteNumber + 1 ] >>
                ELSE << spans[k] >> ])

\* .mid tracks of up to MaxSpans notes and sustained modifiers: a guitar
\* track of expert green, alone or in a chord with red, and hard green with
\* force-hopo on expert (101) and force-tap (104), a guitar track of expert
\* green on every tick with a Phase Shift open or tap phrase, or a drum
\* track of expert and hard yellow with the yellow tom marker (110) and the
\* flam marker (109).
InitSplit ==
    /\ iniChartModifiers = defaultIniChartModifiers
    /\ \/ /\ instrument = "guitar"
          /\ \E spans \in SeqsUpTo(Spans({ 96, 84 }, 0..MaxSpanTick, { 0 }, { 100 })
                                   \cup Spans({ 101, 104 }, 0..MaxSpanTick,
                                              0..MaxSpanLength, { 100 }), MaxSpans) :
             \E chords \in BOOLEAN :
                /\ IsTickSorted(spans)
                /\ MidiFileOf(<< [ trackName |-> "PART GUITAR",
                                   trackEvents |->
                                       EventsOfSpans(IF chords THEN WithChords(spans, 96)
                                                     ELSE spans) ] >>)
       \/ /\ instrument = "guitar"
          /\ \E start \in 0..MaxSpanTick, length \in 0..MaxSpanLength :
             \E difficultyByte \in { 3, 255 }, typeByte \in { 1, 4 } :
                MidiFileOf(<< [ trackName |-> "PART GUITAR",
                                trackEvents |->
                                    MidiOrder(
                                        << PhaseShiftEvent(start, difficultyByte, typeByte, 1),
                                           PhaseShiftEvent(start + length, difficultyByte,
                                                           typeByte, 0) >>
                                        \o EventsOfSpans(
                                               [ t \in 1..(MaxSpanTick + 1) |->
                                                   [ noteNumber |-> 96, tick |-> t - 1,
                                                     length |-> 0, velocity |-> 100 ] ])) ] >>)
       \/ /\ instrument = "drums"
          /\ \E spans \in SeqsUpTo(Spans({ 98, 86 }, 0..MaxSpanTick, { 0 }, { 100 })
                                   \cup Spans({ 110, 109 }, 0..MaxSpanTick,
                                              0..MaxSpanLength, { 100 }),
                                   MaxSpans) :
                /\ IsTickSorted(spans)
                /\ MidiFileOf(<< [ trackName |-> "PART DRUMS",
                                   trackEvents |-> EventsOfSpans(spans) ] >>)

SpecSplit == InitSplit /\ [][Next]_vars

MaxDiscoTick == 2       \* drum events of the disco flip charts lie on ticks 0..MaxDiscoTick
MaxDiscoEvents == 4     \* events of such a track

DiscoLines ==
    [ tick : 0..MaxDiscoTick, length : { 0 },
      type : { eventTypes.redDrum, eventTypes.yellowDrum, eventTypes.discoFlipOff,
               eventTypes.discoFlipOn, eventTypes.discoNoFlipOn } ]

DiscoTexts ==
    [ deltaTime : 0..MaxDiscoTick, type : { "text" },
      text : { "mix 3 drums0", "mix 3 drums0d", "mix 3 drums0dnoflip", "mix 3 drums0easy",
               "mix 2 drums0d" } ]

\* Expert drum tracks of red and yellow notes and disco flip events: the
\* events of the track in tick order, or a PART DRUMS track of a .mid file
\* with a red note on every tick and up to two `mix` text events.
InitDisco ==
    /\ instrument = "drums"
    /\ iniChartModifiers = defaultIniChartModifiers
    /\ \/ /\ Unparsed
          /\ NoSyncTrack
          /\ format \in { "chart", "mid" }
          /\ chartTicksPerBeat = 2
          /\ lines \in SeqsUpTo(DiscoLines, MaxDiscoEvents)
          /\ IsTickSorted(lines)
          /\ PlainFolder
          /\ OneExpertTrack
       \/ \E texts \in SeqsUpTo(DiscoTexts, 2) :
             MidiFileOf(<< [ trackName |-> "PART DRUMS",
                             trackEvents |->
                                 MidiOrder(texts \o EventsOfSpans(
                                     [ t \in 1..(MaxDiscoTick + 1) |->
                                         [ noteNumber |-> 97, tick |-> t - 1, length |-> 0,
                                           velocity |-> 100 ] ])) ] >>)

SpecDisco == InitDisco /\ [][Next]_vars

MaxDynamicsNotes == 3   \* notes of a .mid track with velocities

\* No MIDI note is struck twice on one tick.
StruckOnce(spans) ==
    \A i, j \in DOMAIN spans :
        (spans[i].noteNumber = spans[j].noteNumber /\ spans[i].tick = spans[j].tick) => i = j

\* The text events a track holds before its notes: none, or `text` on one
\* of the ticks.
TextEvents(text, ticks) ==
    { <<>> } \cup { << [ deltaTime |-> tick, type |-> "text", text |-> text ] >> : tick \in ticks }

\* .mid tracks whose notes are struck with velocity 1, 100 or 127, with or
\* without the ENABLE_CHART_DYNAMICS text event on one of the ticks: a drum
\* track of expert red (97) and hard red (85), or a guitar track of expert
\* green (96).
InitDynamics ==
    /\ iniChartModifiers = defaultIniChartModifiers
    /\ \E texts \in TextEvents("ENABLE_CHART_DYNAMICS", 0..MaxSpanTick)
                    \cup TextEvents("[ENABLE_CHART_DYNAMICS]", { 1 }) :
          \/ /\ instrument = "drums"
             /\ \E spans \in SeqsUpTo(Spans({ 97, 85 }, 0..MaxSpanTick, { 0 }, { 1, 100, 127 }),
                                      MaxDynamicsNotes) :
                   /\ IsTickSorted(spans)
                   /\ StruckOnce(spans)
                   /\ MidiFileOf(<< [ trackName |-> "PART DRUMS",
                                      trackEvents |->
                                          MidiOrder(texts \o EventsOfSpans(spans)) ] >>)
          \/ /\ instrument = "guitar"
             /\ \E spans \in SeqsUpTo(Spans({ 96 }, 0..MaxSpanTick, { 0 }, { 1, 127 }),
                                      MaxDynamicsNotes - 1) :
                   /\ IsTickSorted(spans)
                   /\ StruckOnce(spans)
                   /\ MidiFileOf(<< [ trackName |-> "PART GUITAR",
                                      trackEvents |->
                                          MidiOrder(texts \o EventsOfSpans(spans)) ] >>)

SpecDynamics == InitDynamics /\ [][Next]_vars

MaxOverlapTick == 2     \* ticks of the notes of a track with overlapping sustains

OverlapNoteLines ==
    [ tick : 0..MaxOverlapTick, length : 0..MaxLength,
      type : { eventTypes.green, eventTypes.red } ]

\* Guitar tracks of up to MaxEvents sustained notes, with and without chord
\* snapping, and guitar tracks of one note and up to MaxPhrases star power
\* phrases or solos.
InitOverlap ==
    /\ Unparsed
    /\ NoSyncTrack
    /\ format \in { "chart", "mid" }
    /\ instrument = "guitar"
    /\ chartTicksPerBeat = 2
    /\ \/ /\ \E snap \in { 0, SnapThreshold } :
                iniChartModifiers =
                    [ defaultIniChartModifiers EXCEPT !.chord_snap_threshold = snap ]
          /\ lines \in SeqsUpTo(OverlapNoteLines, MaxEvents)
       \/ /\ iniChartModifiers = defaultIniChartModifiers
          /\ \E kind \in { "starPower", "solo" } :
                \E phrases \in SeqsUpTo(PhraseLines(kind, format), MaxPhrases) \ { <<>> } :
                    lines = << FirstNote(instrument) >> \o phrases
    /\ FileOrder(format, lines)
    /\ PlainFolder
    /\ OneExpertTrack

SpecOverlap == InitOverlap /\ [][Next]_vars

MaxTrackNotes == 2      \* notes of each instrument track of a .mid file with several tracks

\* The events of an instrument track of up to MaxTrackNotes notes: expert
\* green (96), expert red (97) and hard green (84) on ticks 0 and 1.
TrackNoteEvents ==
    { EventsOfSpans(spans) :
        spans \in { s \in SeqsUpTo(Spans({ 96, 97, 84 }, 0..1, { 0 }, { 100 }), MaxTrackNotes) :
                      s # <<>> /\ IsTickSorted(s) /\ StruckOnce(s) } }

\* .mid files with one or two instrument tracks named T1 GEMS, PART GUITAR
\* or PART BASS.
InitTracks ==
    /\ instrument = "guitar"
    /\ iniChartModifiers = defaultIniChartModifiers
    /\ \E tracks \in SeqsUpTo([ trackName : { "T1 GEMS", "PART GUITAR", "PART BASS" },
                                trackEvents : TrackNoteEvents ], 2) \ { <<>> } :
          MidiFileOf(tracks)

SpecTracks == InitTracks /\ [][Next]_vars

DrumNotes ==
    { eventTypes.kick, eventTypes.redDrum, eventTypes.yellowDrum, eventTypes.blueDrum }

\* The modifiers of the drum note groups of the model: disco flip events,
\* the marker of the format that turns yellow into a cymbal (.chart) or a
\* tom (.mid), accent and ghost of red, and flam.
DrumModifiers(fmt) ==
    { eventTypes.discoFlipOn, eventTypes.discoNoFlipOn,
      IF fmt = "chart" THEN eventTypes.yellowCymbalMarker ELSE eventTypes.yellowTomMarker,
      eventTypes.redAccent, eventTypes.redGhost, eventTypes.forceFlam }

SubsetsUpTo(S, n) == { s \in SUBSET S : Cardinality(s) <= n }

\* Tracks whose note groups lie closer than the chord snap threshold or
\* not: two drum note groups of one or two notes one or two ticks apart with
\* up to one and two modifiers, three drum note groups of one note each with
\* disco flip events on three ticks in a row, or two fret note groups with
\* the modifiers of the format.
InitFlags ==
    /\ format \in { "chart", "mid" }
    /\ syncTempos = <<>>
    /\ \/ /\ Unparsed
          /\ instrument = "drums"
          /\ chartTicksPerBeat = 2
          /\ syncTimeSignatures = <<>>
          /\ eventLines = <<>>
          /\ \/ /\ iniChartModifiers =
                      [ defaultIniChartModifiers EXCEPT !.chord_snap_threshold = SnapThreshold ]
                /\ \E previous \in SubsetsUpTo(DrumNotes, 2) \ { {} },
                      this \in SubsetsUpTo(DrumNotes, 2) \ { {} },
                      gap \in 1..SnapThreshold :
                   \E previousModifiers \in SubsetsUpTo(DrumModifiers(format), 1),
                      modifiers \in SubsetsUpTo(DrumModifiers(format), 2) :
                      lines = EventsAt(0, previous \cup previousModifiers)
                              \o EventsAt(gap, this \cup modifiers)
             \/ /\ iniChartModifiers =
                      [ defaultIniChartModifiers EXCEPT
                          !.chord_snap_threshold = SnapThreshold + 1 ]
                /\ \E notes \in [ 0..2 -> { eventTypes.kick, eventTypes.redDrum,
                                            eventTypes.yellowDrum } ] :
                   \E flips \in [ 0..2 -> SubsetsUpTo(discoFlipEventTypes, 1) ] :
                      lines = EventsAt(0, { notes[0] } \cup flips[0])
                              \o EventsAt(1, { notes[1] } \cup flips[1])
                              \o EventsAt(2, { notes[2] } \cup flips[2])
       \/ /\ chartTicksPerBeat = 10
          /\ iniChartModifiers =
                [ defaultIniChartModifiers EXCEPT !.chord_snap_threshold = SnapThreshold ]
          /\ TwoFretGroups(1..SnapThreshold)
    /\ PlainFolder
    /\ OneExpertTrack

SpecFlags == InitFlags /\ [][Next]_vars

-----------------------------------------------------------------------------
(* Properties of the parsed chart                                          *)

ParsedTracks == Range(parsed.trackData)

NotesOf(track) == Flatten(track.noteEventGroups)

\* C1: after parseChartFile, no two distinct notes of the same type of a
\* track overlap: of two such notes, the one that does not start later ends
\* (tick + length) at or before the tick of the other.
C1_NoSameTypeNoteOverlap ==
    \A track \in ParsedTracks :
        LET notes == NotesOf(track)
        IN  \A i, j \in DOMAIN notes :
                (i # j /\ notes[i].type = notes[j].type /\ notes[i].tick <= notes[j].tick)
                    => notes[i].tick + notes[i].length <= notes[j].tick

\* A sustain of the file runs over two later notes of its own type, chord
\* snapping is on, and the parsed track holds several notes.
C1_Witness ==
    /\ pc = "parsed"
    /\ \E i, j, k \in DOMAIN lines :
          /\ lines[i].type = lines[j].type /\ lines[j].type = lines[k].type
          /\ lines[i].tick < lines[j].tick /\ lines[j].tick < lines[k].tick
          /\ lines[k].tick < lines[i].tick + lines[i].length
    /\ iniChartModifiers.chord_snap_threshold > 0
    /\ \E track \in ParsedTracks : Len(NotesOf(track)) >= 2

\* C2: noteEventGroups of every parsed track is strictly sorted and
\* deduplicated: no group is empty, the notes of a group share one tick, the
\* ticks of consecutive groups strictly increase, and no group holds two notes
\* of one type.
C2_NoteGroupsSortedAndDeduplicated ==
    \A track \in ParsedTracks :
        LET groups == track.noteEventGroups
        IN  /\ \A g \in DOMAIN groups :
                  /\ groups[g] # <<>>
                  /\ \A i \in DOMAIN groups[g] : groups[g][i].tick = groups[g][1].tick
                  /\ \A i, j \in DOMAIN groups[g] :
                        i # j => groups[g][i].type # groups[g][j].type
            /\ \A g \in 1..(Len(groups) - 1) : groups[g][1].tick < groups[g + 1][1].tick

\* Lines out of tick order, of which one was dropped as a duplicate, parsed
\* into at least two groups.
C2_Witness ==
    /\ pc = "parsed"
    /\ ~IsTickSorted(lines)
    /\ \E track \in ParsedTracks :
          /\ Len(NotesOf(track)) < Len(lines)
          /\ Len(track.noteEventGroups) >= 2

NonOverlapping(phrases) ==
    \A i \in 1..(Len(phrases) - 1) :
        /\ phrases[i].tick < phrases[i + 1].tick
        /\ phrases[i].tick + phrases[i].length <= phrases[i + 1].tick

\* The raw phrase tables of the track, as the parser of the format hands
\* them to parseChartFile.
RawTracks == Range(RawChartOfFile.trackData)

\* `table` is the repair of the raw table `raw`: it is non-overlapping, and
\* every tick on which raw phrases start has a phrase in it that is as long
\* as the longest of them unless it was cut to end where the next one starts.
PhraseTableRepaired(table, raw) ==
    /\ NonOverlapping(table)
    /\ \A i \in DOMAIN raw : \E k \in DOMAIN table :
          /\ table[k].tick = raw[i].tick
          /\ \/ table[k].length >= raw[i].length
             \/ k < Len(table) /\ table[k].tick + table[k].length = table[k + 1].tick

\* C3: starPowerSections and soloSections of every parsed track are strictly
\* increasing by tick and pairwise non-overlapping (tick + length of a phrase
\* is at most the tick of the next), whatever the raw phrases; of the raw
\* phrases on one tick the longest is the one kept.
C3_StarPowerAndSolosNonOverlapping ==
    \A track \in ParsedTracks : \A raw \in RawTracks :
        /\ PhraseTableRepaired(track.starPowerSections, raw.starPowerSections)
        /\ PhraseTableRepaired(track.soloSections, raw.soloSections)

\* Raw star power or solo phrases of which two share a tick and one runs
\* into a later one, parsed into at least two phrases.
C3_Witness ==
    /\ pc = "parsed"
    /\ \E raw \in RawTracks : \E table \in { raw.starPowerSections, raw.soloSections } :
          /\ \E i, j \in DOMAIN table :
                i # j /\ table[i].tick = table[j].tick /\ table[i].length # table[j].length
          /\ \E i, j \in DOMAIN table :
                /\ table[i].tick < table[j].tick
                /\ table[j].tick < table[i].tick + table[i].length
    /\ \E track \in ParsedTracks :
          Len(track.starPowerSections) + Len(track.soloSections) >= 2

\* C4: flexLanes and drumFreestyleSections of every parsed track get the
\* repair of star power and solos: sorted by tick, one phrase per tick (the
\* longest), an earlier phrase cut to end where the next starts, so that no
\* two flex lanes and no two drum freestyle sections overlap.
C4_FlexLanesAndFreestyleRepaired ==
    \A track \in ParsedTracks : \A raw \in RawTracks :
        /\ PhraseTableRepaired(track.flexLanes, raw.flexLanes)
        /\ PhraseTableRepaired(track.drumFreestyleSections, raw.drumFreestyleSections)

TimesOf(events) == { [tick |-> e.tick, msTime |-> e.msTime] : e \in Range(events) }

\* Every timed item of the parsed chart, as its tick and msTime.
TimedItems ==
    TimesOf(parsed.tempos) \cup TimesOf(parsed.timeSignatures)
    \cup TimesOf(parsed.sections) \cup TimesOf(parsed.endEvents)
    \cup UNION { TimesOf(track.starPowerSections) \cup TimesOf(track.rejectedStarPowerSections)
                 \cup TimesOf(track.soloSections) \cup TimesOf(track.flexLanes)
                 \cup TimesOf(track.drumFreestyleSections) \cup TimesOf(NotesOf(track)) :
                 track \in ParsedTracks }

\* C5: in every parsed chart msTime is a nondecreasing function of tick over
\* all timed items (tempo markers, time signatures, sections, end events,
\* phrases, notes), whatever the order of the markers and events in the file:
\* an item on an earlier or equal tick never has a later msTime, so items on
\* one tick have one msTime.
C5_MsTimeNondecreasingInTick ==
    \A a, b \in TimedItems : a.tick <= b.tick => a.msTime <= b.msTime

\* The note groups resolveFretModifiers emitted for the track.
FretGroups == [ k \in DOMAIN fretTrace |-> fretTrace[k].noteGroup ]

\* A modifier of the given type is present in the file on the tick of group k.
Forced(k, type) ==
    \E i \in DOMAIN lines : lines[i].tick = FretGroups[k][1].tick /\ lines[i].type = type

\* The flag the priority table gives group k.
FlagByPriority(k) ==
    IF Forced(k, eventTypes.forceTap) THEN noteFlags.tap
    ELSE IF Forced(k, eventTypes.forceHopo) THEN noteFlags.hopo
    ELSE IF Forced(k, eventTypes.forceStrum) THEN noteFlags.strum
    ELSE IF Forced(k, eventTypes.forceUnnatural) # fretTrace[k].isNaturalHopo
         THEN noteFlags.hopo
    ELSE noteFlags.strum

\* C9: all notes of a fret note group get one flag: tap if a forceTap is on
\* the tick, else hopo if a forceHopo is, else strum if a forceStrum is, else
\* hopo if exactly one of (forceUnnatural present, natural HOPO) holds, else
\* strum. Without chord snapping the groups of the parsed track carry it too.
C9_FretFlagPriority ==
    \A k \in DOMAIN fretTrace :
        /\ \A n \in Range(FretGroups[k]) : n.flags = FlagByPriority(k)
        /\ (iniChartModifiers.chord_snap_threshold = 0)
              => \A track \in ParsedTracks :
                    /\ Len(track.noteEventGroups) = Len(fretTrace)
                    /\ \A n \in Range(track.noteEventGroups[k]) : n.flags = FlagByPriority(k)

\* A .mid group with forceTap, forceHopo and forceStrum together came out tap.
C9_Witness ==
    /\ pc = "parsed"
    /\ \E k \in DOMAIN fretTrace :
          /\ Forced(k, eventTypes.forceTap)
          /\ Forced(k, eventTypes.forceHopo)
          /\ Forced(k, eventTypes.forceStrum)
          /\ \A track \in ParsedTracks :
                \A n \in Range(track.noteEventGroups[k]) : n.flags = noteFlags.tap

ColoursOf(noteGroup) == { n.type : n \in Range(noteGroup) }

\* H as the claim gives it; x \div y is floor(x / y).
HopoThresholdOfClaim ==
    IF iniChartModifiers.hopo_frequency # 0 THEN iniChartModifiers.hopo_frequency
    ELSE IF iniChartModifiers.eighthnote_hopo THEN (2 + chartTicksPerBeat) \div 2
    ELSE IF format = "mid" THEN (3 + chartTicksPerBeat) \div 3
    ELSE (65 * chartTicksPerBeat) \div 192

\* The claim's definition of a natural HOPO for group k.
NaturalHopoOfClaim(k) ==
    /\ k > 1
    /\ FretGroups[k][1].tick - FretGroups[k - 1][1].tick <= HopoThresholdOfClaim
    /\ Cardinality(ColoursOf(FretGroups[k])) = 1
    /\ ColoursOf(FretGroups[k]) # ColoursOf(FretGroups[k - 1])
    /\ ~ /\ format = "mid"
         /\ Cardinality(ColoursOf(FretGroups[k - 1])) > 1
         /\ ColoursOf(FretGroups[k]) \subseteq ColoursOf(FretGroups[k - 1])

-----------------------------------------------------------------------------
(* Properties of the serialised track                                      *)

\* The number a run of little-endian bytes stands for.
RECURSIVE FromLittleEndian(_)
FromLittleEndian(bytes) ==
    IF bytes = <<>> THEN 0 ELSE Head(bytes) + 256 * FromLittleEndian(Tail(bytes))

\* The number in the `size` bytes of btrack after the first `offset` bytes.
Field(offset, size) == FromLittleEndian(SubSeq(btrack, offset + 1, offset + size))

\* The table of btrack that starts after `offset` bytes: its records of
\* `size` bytes read by Read(offset of the record).
TableAt(offset, size, Read(_)) ==
    [ k \in 1..Field(offset, 4) |-> Read(offset + 4 + size * (k - 1)) ]

EndOfTable(offset, size) == offset + 4 + size * Field(offset, 4)

TemposOffset == 12
TimeSignaturesOffset == EndOfTable(TemposOffset, 16)
StarPowerOffset == EndOfTable(TimeSignaturesOffset, 16)
SoloSectionsOffset == EndOfTable(StarPowerOffset, 16)
FlexLanesOffset == EndOfTable(SoloSectionsOffset, 16)
DrumFreestyleSectionsOffset == EndOfTable(FlexLanesOffset, 17)
NotesOffset == EndOfTable(DrumFreestyleSectionsOffset, 17)

ReadPhrase(o) == [ tick |-> Field(o, 8), length |-> Field(o + 8, 8) ]

\* The tables read back from the bytes of btrack.
SerializedTempos ==
    TableAt(TemposOffset, 16,
            LAMBDA o : [ tick |-> Field(o, 8), millibeatsPerMinute |-> Field(o + 8, 8) ])
SerializedTimeSignatures ==
    TableAt(TimeSignaturesOffset, 16,
            LAMBDA o : [ tick |-> Field(o, 8), numerator |-> Field(o + 8, 4),
                         denominator |-> Field(o + 12, 4) ])
SerializedStarPower == TableAt(StarPowerOffset, 16, ReadPhrase)
SerializedSoloSections == TableAt(SoloSectionsOffset, 16, ReadPhrase)
SerializedFlexLanes ==
    TableAt(FlexLanesOffset, 17,
            LAMBDA o : [ tick |-> Field(o, 8), length |-> Field(o + 8, 8),
                         isDouble |-> Field(o + 16, 1) = 1 ])
SerializedDrumFreestyleSections ==
    TableAt(DrumFreestyleSectionsOffset, 17,
            LAMBDA o : [ tick |-> Field(o, 8), length |-> Field(o + 8, 8),
                         isCoda |-> Field(o + 16, 1) = 1 ])

\* The records of `s` cut down to the given fields.
Project(s, fields) == [ i \in DOMAIN s |-> [ f \in fields |-> s[i][f] ] ]

Without(s, i) == SubSeq(s, 1, i - 1) \o SubSeq(s, i + 1, Len(s))

HashedTrack == parsed.trackData[1]

\* The bytes of the parsed chart with its track replaced by `track`.
BytesWithTrack(track) == calculateTrackHash(parsed, track)

\* Some note group of the track lies in [tick, tick + max(length, 1)).
HasNoteIn(track, phrase) ==
    \E g \in DOMAIN track.noteEventGroups :
        /\ track.noteEventGroups[g][1].tick >= phrase.tick
        /\ track.noteEventGroups[g][1].tick < phrase.tick + Max(phrase.length, 1)

NonEmptyPhrases(track, table) == SelectSeq(table, LAMBDA phrase : HasNoteIn(track, phrase))

\* The serialised table holds exactly the non-empty phrases of the table
\* `name` of the track, in order, and the bytes are the same without any one
\* of its empty phrases.
SerializedPruned(serialized, name, fields) ==
    /\ serialized = Project(NonEmptyPhrases(HashedTrack, HashedTrack[name]), fields)
    /\ \A i \in DOMAIN HashedTrack[name] :
          ~HasNoteIn(HashedTrack, HashedTrack[name][i])
              => BytesWithTrack([ HashedTrack EXCEPT ![name] = Without(@, i) ]) = btrack

\* C7 as claimed: every phrase table of the serialised track (star power,
\* solos, flex lanes and drum freestyle sections) holds exactly the phrases
\* that have a note group in [tick, tick + max(length, 1)), in order; a
\* phrase without a note does not change the bytes.
C7_AllPhraseTablesPruned ==
    pc = "hashed" =>
        /\ SerializedPruned(SerializedStarPower, "starPowerSections", { "tick", "length" })
        /\ SerializedPruned(SerializedSoloSections, "soloSections", { "tick", "length" })
        /\ SerializedPruned(SerializedFlexLanes, "flexLanes", { "tick", "length", "isDouble" })
        /\ SerializedPruned(SerializedDrumFreestyleSections, "drumFreestyleSections",
                            { "tick", "length", "isCoda" })

\* C7 amended: the star power, solo and flex lane tables of the serialised
\* track hold exactly the phrases that have a note group in
\* [tick, tick + max(length, 1)), in order, and a phrase of these tables
\* without a note does not change the bytes; the drum freestyle table holds
\* every drum freestyle section of the track, with or without notes.
C7_PhraseTablesPrunedButFreestyle ==
    pc = "hashed" =>
        /\ SerializedPruned(SerializedStarPower, "starPowerSections", { "tick", "length" })
        /\ SerializedPruned(SerializedSoloSections, "soloSections", { "tick", "length" })
        /\ SerializedPruned(SerializedFlexLanes, "flexLanes", { "tick", "length", "isDouble" })
        /\ SerializedDrumFreestyleSections
              = Project(HashedTrack.drumFreestyleSections, { "tick", "length", "isCoda" })

\* A serialised track of which one phrase has a note and another has none.
C7_Witness ==
    /\ pc = "hashed"
    /\ \E name \in { "starPowerSections", "soloSections", "flexLanes" } :
          /\ \E i \in DOMAIN HashedTrack[name] : HasNoteIn(HashedTrack, HashedTrack[name][i])
          /\ \E i \in DOMAIN HashedTrack[name] : ~HasNoteIn(HashedTrack, HashedTrack[name][i])

\* The last marker of `markers` on the given tick.
LastOn(markers, tick) ==
    markers[CHOOSE i \in DOMAIN markers :
                /\ markers[i].tick = tick
                /\ \A j \in DOMAIN markers : markers[j].tick = tick => j <= i]

StrictlyIncreasing(table) ==
    \A k \in 1..(Len(table) - 1) : table[k].tick < table[k + 1].tick

\* What setUint32 stores of the denominator 2^exponent.
DenominatorStored(exponent) == IF exponent < 32 THEN 2 ^ exponent ELSE 0

\* C8: the serialised tempos and time signatures have strictly increasing
\* ticks, one entry for every tick that has a marker, and the entry is the
\* last marker of the parsed sequence on that tick; removing or changing an
\* earlier marker that shares its tick with a later one leaves the bytes as
\* they are.
C8_LastMarkerPerTickSerialized ==
    pc = "hashed" =>
        /\ StrictlyIncreasing(SerializedTempos)
        /\ StrictlyIncreasing(SerializedTimeSignatures)
        /\ { e.tick : e \in Range(SerializedTempos) } = { e.tick : e \in Range(parsed.tempos) }
        /\ { e.tick : e \in Range(SerializedTimeSignatures) }
              = { e.tick : e \in Range(parsed.timeSignatures) }
        /\ \A e \in Range(SerializedTempos) :
              e.millibeatsPerMinute = LastOn(parsed.tempos, e.tick).millibeatsPerMinute
        /\ \A e \in Range(SerializedTimeSignatures) :
              /\ e.numerator = LastOn(parsed.timeSignatures, e.tick).numerator
              /\ e.denominator
                    = DenominatorStored(LastOn(parsed.timeSignatures, e.tick).denominatorExp)
        /\ \A i, j \in DOMAIN parsed.tempos :
              (i < j /\ parsed.tempos[i].tick = parsed.tempos[j].tick)
                  => /\ calculateTrackHash([ parsed EXCEPT !.tempos = Without(@, i) ],
                                           HashedTrack) = btrack
                     /\ calculateTrackHash(
                            [ parsed EXCEPT !.tempos[i].millibeatsPerMinute = @ + 1000 ],
                            HashedTrack) = btrack
        /\ \A i, j \in DOMAIN parsed.timeSignatures :
              (i < j /\ parsed.timeSignatures[i].tick = parsed.timeSignatures[j].tick)
                  => /\ calculateTrackHash([ parsed EXCEPT !.timeSignatures = Without(@, i) ],
                                           HashedTrack) = btrack
                     /\ calculateTrackHash(
                            [ parsed EXCEPT !.timeSignatures[i].numerator = @ + 1 ],
                            HashedTrack) = btrack

\* A serialised chart whose tempos hold two different markers on one tick,
\* and whose time signatures do too.
C8_Witness ==
    /\ pc = "hashed"
    /\ \E i, j \in DOMAIN parsed.tempos :
          /\ i < j /\ parsed.tempos[i].tick = parsed.tempos[j].tick
          /\ parsed.tempos[i].millibeatsPerMinute # parsed.tempos[j].millibeatsPerMinute
    /\ \E i, j \in DOMAIN parsed.timeSignatures :
          /\ i < j /\ parsed.timeSignatures[i].tick = parsed.timeSignatures[j].tick
          /\ parsed.timeSignatures[i].denominatorExp # parsed.timeSignatures[j].denominatorExp

\* What the serialiser keeps of a parsed chart and its track: the kept
\* tempos and time signatures, the non-empty phrases and the notes, each
\* with the fields that are written.
Kept(chart) ==
    LET track == chart.trackData[1]
    IN  [ tempos |-> Project(tempoData(chart), { "tick", "millibeatsPerMinute" }),
          timeSignatures |-> Project(timeSignatureData(chart),
                                     { "tick", "numerator", "denominatorExp" }),
          starPower |-> Project(NonEmptyPhrases(track, track.starPowerSections),
                                { "tick", "length" }),
          soloSections |-> Project(NonEmptyPhrases(track, track.soloSections),
                                   { "tick", "length" }),
          flexLanes |-> Project(NonEmptyPhrases(track, track.flexLanes),
                                { "tick", "length", "isDouble" }),
          drumFreestyleSections |->
              Project(NonEmptyPhrases(track, track.drumFreestyleSections),
                      { "tick", "length", "isCoda" }),
          notes |-> Project(Flatten(track.noteEventGroups),
                            { "tick", "length", "type", "flags" }) ]

\* One field of a record changed to another value of its kind.
FieldChanges(r) ==
    { [ r EXCEPT ![f] = IF f \in { "isDouble", "isCoda" } THEN ~@
                        ELSE IF f = "millibeatsPerMinute" THEN @ + 1000
                        ELSE @ + 1 ] :
        f \in DOMAIN r \ { "msTime", "msLength" } }

\* The tables that differ from `table` in one field of one record, or lack
\* one record.
TableChanges(table) ==
    UNION { { [ table EXCEPT ![i] = r ] : r \in FieldChanges(table[i]) } : i \in DOMAIN table }
    \cup { Without(table, i) : i \in DOMAIN table }

\* The note groups that differ from `groups` in one field of one note, or
\* lack one group.
NoteGroupChanges(groups) ==
    UNION { { [ groups EXCEPT ![g] = notes ] :
                notes \in TableChanges(groups[g]) \ { <<>> } } : g \in DOMAIN groups }
    \cup { Without(groups, g) : g \in DOMAIN groups }

\* The parsed charts one change away from the parsed chart.
OtherCharts ==
    { [ parsed EXCEPT !.tempos = t ] : t \in TableChanges(parsed.tempos) \ { <<>> } }
    \cup { [ parsed EXCEPT !.timeSignatures = t ] :
             t \in TableChanges(parsed.timeSignatures) \ { <<>> } }
    \cup UNION { { [ parsed EXCEPT !.trackData[1][name] = t ] :
                     t \in TableChanges(HashedTrack[name]) } :
                 name \in { "starPowerSections", "soloSections", "flexLanes",
                            "drumFreestyleSections" } }
    \cup { [ parsed EXCEPT !.trackData[1].noteEventGroups = groups ] :
             groups \in NoteGroupChanges(HashedTrack.noteEventGroups) }

\* Every numerator and denominator of the chart's time signatures is below 2^32.
FitsUint32(chart) ==
    \A i \in DOMAIN chart.timeSignatures : chart.timeSignatures[i].denominatorExp < 32

-----------------------------------------------------------------------------
(* The sustain cutoff                                                      *)

\* The events of the raw track before and after trimSustains.
UntrimmedEvents(raw) == raw.trackEvents

TrimmedEvents(raw) ==
    trimSustains(raw.trackEvents, iniChartModifiers.sustain_cutoff_threshold,
                 chartTicksPerBeat, format)

DefaultSustainCutoff == IF format = "mid" THEN (chartTicksPerBeat \div 3) + 1 ELSE 0

\* The cutoff set to 0 exactly the events that are at most T long, in the
\* trimmed events and, for a track of one note, in the parsed track.
SustainsCutAt(T) ==
    /\ \A raw \in RawTracks :
          LET before == UntrimmedEvents(raw)
              after == TrimmedEvents(raw)
          IN  /\ Len(after) = Len(before)
              /\ \A i \in DOMAIN before :
                    after[i] = IF before[i].length <= T
                               THEN [before[i] EXCEPT !.length = 0]
                               ELSE before[i]
    /\ Len(lines) = 1 =>
          \A track \in ParsedTracks :
              /\ Len(NotesOf(track)) = 1
              /\ NotesOf(track)[1].length =
                    IF lines[1].length <= T THEN 0 ELSE lines[1].length

\* C11 as stated: the sustain cutoff sets length 0 for exactly the events
\* with length <= T, T being sustain_cutoff_threshold whenever it is >= 0 and,
\* for every negative value, floor(ticksPerBeat / 3) + 1 for .mid and 0 for
\* .chart.
C11_SustainCutoffDefaultForEveryNegative ==
    pc = "parsed" =>
        SustainsCutAt(IF iniChartModifiers.sustain_cutoff_threshold >= 0
                      THEN iniChartModifiers.sustain_cutoff_threshold
                      ELSE DefaultSustainCutoff)

\* C11 amended: the sustain cutoff sets length 0 for exactly the events with
\* length <= T, T being sustain_cutoff_threshold whenever it is not -1 (a
\* negative value other than -1 cuts nothing) and, for -1 only,
\* floor(ticksPerBeat / 3) + 1 for .mid and 0 for .chart.
C11_SustainCutoffDefaultForMinusOne ==
    pc = "parsed" =>
        SustainsCutAt(IF iniChartModifiers.sustain_cutoff_threshold # -1
                      THEN iniChartModifiers.sustain_cutoff_threshold
                      ELSE DefaultSustainCutoff)

\* A .mid track under the default -1 of which one sustain, as long as the
\* default cutoff, was cut and a longer one was kept.
C11_Witness ==
    /\ pc = "parsed"
    /\ format = "mid"
    /\ iniChartModifiers.sustain_cutoff_threshold = -1
    /\ \E i, j \in DOMAIN lines :
          /\ lines[i].tick < lines[j].tick
          /\ lines[i].length = DefaultSustainCutoff
          /\ lines[j].length > DefaultSustainCutoff
    /\ \E track \in ParsedTracks :
          /\ Len(NotesOf(track)) = 2
          /\ NotesOf(track)[1].length = 0
          /\ NotesOf(track)[2].length > DefaultSustainCutoff

-----------------------------------------------------------------------------
(* Chord snapping                                                          *)

\* The ticks of the file's notes in ascending order.
NoteTicks == Ascending({ lines[i].tick : i \in DOMAIN lines })

\* The ticks of the groups that are kept when a group is merged into the last
\* kept group exactly when `Merges(distance)` holds of its distance from
\* that group's tick; mergeAtThreshold tells whether the distance equal to
\* the threshold merges.
RECURSIVE KeptTicks(_, _, _, _, _)
KeptTicks(ticks, i, kept, threshold, mergeAtThreshold) ==
    IF i > Len(ticks) THEN kept
    ELSE LET distance == ticks[i] - kept[Len(kept)]
             merges == distance < threshold \/ (mergeAtThreshold /\ distance = threshold)
         IN  KeptTicks(ticks, i + 1, IF merges THEN kept ELSE Append(kept, ticks[i]),
                       threshold, mergeAtThreshold)

GroupTicks(track) == [ g \in DOMAIN track.noteEventGroups |-> track.noteEventGroups[g][1].tick ]

\* The note groups of the parsed track lie on the ticks that remain when
\* snapping merges as told by mergeAtThreshold.
SnappedTo(mergeAtThreshold) ==
    \A track \in ParsedTracks :
        GroupTicks(track) =
            IF iniChartModifiers.chord_snap_threshold <= 0 THEN NoteTicks
            ELSE KeptTicks(NoteTicks, 2, << NoteTicks[1] >>,
                           iniChartModifiers.chord_snap_threshold, mergeAtThreshold)

\* C12: with chord_snap_threshold C > 0 a note group is merged into the last
\* kept group exactly when its tick is at most C ticks after the tick of that
\* kept group, the distance being measured from the kept group's own tick;
\* with C <= 0 nothing is merged.
C12_SnapAtOrCloserThanThreshold ==
    (pc = "parsed" /\ lines # <<>>) => SnappedTo(TRUE)

\* What snapChords does: it merges a group only when it is strictly closer
\* than C to the last kept group.
C12_SnapCloserThanThreshold ==
    (pc = "parsed" /\ lines # <<>>) => SnappedTo(FALSE)

\* The events of the raw track, after the sustain cutoff, that chord snapping
\* put into group g of the parsed track: those from the tick of the group up
\* to the tick of the next group.
MergedInto(track, g) ==
    LET groups == track.noteEventGroups
        from == groups[g][1].tick
    IN  UNION { { e \in Range(TrimmedEvents(raw)) :
                    /\ from <= e.tick
                    /\ g < Len(groups) => e.tick < groups[g + 1][1].tick } :
                raw \in RawTracks }

Min(S) == CHOOSE x \in S : \A y \in S : x <= y

\* Group g holds notes of several ticks of the file.
IsMerged(track, g) == Cardinality({ e.tick : e \in MergedInto(track, g) }) > 1

\* C13: when chord snapping merges note groups, every note of the merged
\* group gets the tick of the earliest merged note, and every note sustain is
\* set to the length of the shortest merged note (the later overlap repair
\* may only cut it further, to end at the next note of its type).
C13_MergedNotesTakeEarliestTickAndShortestLength ==
    (pc = "parsed" /\ iniChartModifiers.chord_snap_threshold > 0) =>
        \A track \in ParsedTracks : \A g \in DOMAIN track.noteEventGroups :
            IsMerged(track, g) =>
                LET merged == MergedInto(track, g)
                    shortest == Min({ e.length : e \in merged })
                IN  \A n \in DOMAIN track.noteEventGroups[g] :
                        LET note == track.noteEventGroups[g][n]
                        IN  /\ note.tick = Min({ e.tick : e \in merged })
                            /\ \/ note.length = shortest
                               \/ /\ note.length < shortest
                                  /\ \E h \in DOMAIN track.noteEventGroups :
                                        /\ h > g
                                        /\ track.noteEventGroups[h][1].tick
                                               = note.tick + note.length

\* The part of C13 that snapChords does: every note of a merged group lies on
\* the tick of the earliest merged note.
C13_MergedNotesTakeEarliestTick ==
    (pc = "parsed" /\ iniChartModifiers.chord_snap_threshold > 0) =>
        \A track \in ParsedTracks : \A g \in DOMAIN track.noteEventGroups :
            IsMerged(track, g) =>
                \A n \in DOMAIN track.noteEventGroups[g] :
                    track.noteEventGroups[g][n].tick
                        = Min({ e.tick : e \in MergedInto(track, g) })

-----------------------------------------------------------------------------
(* Legacy star power                                                       *)

\* The star power and solo phrases charted in the file, as (tick, length).
Charted(type) ==
    Project(SelectSeq(lines, LAMBDA e : e.type = type), { "tick", "length" })

IsFretTrack == instrument # "drums"

\* The raw track holds the swap: the charted solos as star power, the
\* charted star power as rejected star power, and no solo; the parsed track
\* has rejected star power exactly when star power was charted, and no solo.
LegacySwapHappened ==
    /\ \A raw \in RawTracks :
          /\ Project(raw.starPowerSections, { "tick", "length" }) = Charted(eventTypes.soloSection)
          /\ Project(raw.rejectedStarPowerSections, { "tick", "length" })
                = Charted(eventTypes.starPower)
          /\ raw.soloSections = <<>>
    /\ \A track \in ParsedTracks :
          /\ Project(track.rejectedStarPowerSections, { "tick", "length" })
                = Charted(eventTypes.starPower)
          /\ track.soloSections = <<>>
          /\ (track.starPowerSections = <<>>) = (Charted(eventTypes.soloSection) = <<>>)

\* Star power and solos are left as charted and nothing is rejected.
LegacyLeftAsCharted ==
    /\ \A raw \in RawTracks :
          /\ Project(raw.starPowerSections, { "tick", "length" }) = Charted(eventTypes.starPower)
          /\ Project(raw.soloSections, { "tick", "length" }) = Charted(eventTypes.soloSection)
          /\ raw.rejectedStarPowerSections = <<>>
    /\ \A track \in ParsedTracks :
          /\ track.rejectedStarPowerSections = <<>>
          /\ (track.starPowerSections = <<>>) = (Charted(eventTypes.starPower) = <<>>)
          /\ (track.soloSections = <<>>) = (Charted(eventTypes.soloSection) = <<>>)

NoStarPowerAndSeveralSolos ==
    /\ Charted(eventTypes.starPower) = <<>>
    /\ Len(Charted(eventTypes.soloSection)) > 1

\* C14 as stated: for 5-fret and 6-fret .mid tracks the legacy star power
\* swap happens exactly when multiplier_note = 103, or multiplier_note = 0
\* and the difficulty has zero star power phrases and more than one solo; for
\* 116, for any other multiplier_note, for drums and for zero star power with
\* exactly one solo everything is left as charted and nothing is rejected.
C14_LegacySwapOnlyFor103OrUnset ==
    (pc = "parsed" /\ format = "mid") =>
        IF /\ IsFretTrack
           /\ \/ iniChartModifiers.multiplier_note = 103
              \/ iniChartModifiers.multiplier_note = 0 /\ NoStarPowerAndSeveralSolos
        THEN LegacySwapHappened
        ELSE LegacyLeftAsCharted

\* C14 amended: for 5-fret and 6-fret .mid tracks the legacy star power swap
\* happens exactly when multiplier_note = 103, or multiplier_note is any value
\* other than 116 and the difficulty has zero star power phrases and more than
\* one solo; for 116, for drums, and otherwise (star power charted, or at most
\* one solo) everything is left as charted and nothing is rejected.
C14_LegacySwapFor103OrNot116 ==
    (pc = "parsed" /\ format = "mid") =>
        IF /\ IsFretTrack
           /\ \/ iniChartModifiers.multiplier_note = 103
              \/ iniChartModifiers.multiplier_note # 116 /\ NoStarPowerAndSeveralSolos
        THEN LegacySwapHappened
        ELSE LegacyLeftAsCharted

\* A 6-fret track without star power whose two solos were parsed as star
\* power under an unset multiplier_note.
C14_Witness ==
    /\ pc = "parsed"
    /\ format = "mid"
    /\ instrument = "guitarghl"
    /\ iniChartModifiers.multiplier_note = 0
    /\ NoStarPowerAndSeveralSolos
    /\ \E track \in ParsedTracks :
          /\ Len(track.starPowerSections) > 1
          /\ track.soloSections = <<>>

-----------------------------------------------------------------------------
(* The tempo map and the time signatures                                   *)

StartsAtZeroAndSorted(markers) ==
    /\ markers # <<>>
    /\ markers[1].tick = 0
    /\ IsTickSorted(markers)

\* C15: when parseChartFile succeeds, in both formats, tempos and
\* timeSignatures are non-empty, the first marker of each is at tick 0 (120
\* BPM and 4/4 are put there when the file has no marker at tick 0), and each
\* is sorted ascending by tick whatever the order of the markers in the file.
C15_TemposAndTimeSignaturesStartAtZeroSorted ==
    pc = "parsed" =>
        /\ StartsAtZeroAndSorted(parsed.tempos)
        /\ StartsAtZeroAndSorted(parsed.timeSignatures)
        /\ (\A i \in DOMAIN syncTempos : syncTempos[i].tick # 0)
              => parsed.tempos[1].millibeatsPerMinute = 120000
        /\ (\A i \in DOMAIN syncTimeSignatures : syncTimeSignatures[i].tick # 0)
              => /\ parsed.timeSignatures[1].numerator = 4
                 /\ parsed.timeSignatures[1].denominatorExp = 2

\* What both parsers do: both tables are non-empty and start at tick 0.
C15_TemposAndTimeSignaturesStartAtZero ==
    pc = "parsed" =>
        /\ parsed.tempos # <<>> /\ parsed.tempos[1].tick = 0
        /\ parsed.timeSignatures # <<>> /\ parsed.timeSignatures[1].tick = 0

HasZeroMarker ==
    \/ \E i \in DOMAIN syncTempos : syncTempos[i].millibeatsPerMinute = 0
    \/ \E i \in DOMAIN syncTimeSignatures : syncTimeSignatures[i].numerator = 0

\* C16: parsing fails closed on a zero tempo and on a zero time signature
\* numerator or denominator, in both formats: a file with such a marker is
\* rejected, and in every returned chart all tempos are nonzero and all
\* numerators and denominators are positive.
C16_ZeroMarkersRejected ==
    /\ HasZeroMarker =>
          /\ pc \in { "file", "error", "scanned" }
          /\ pc = "scanned" => scan.notesData = Null
    /\ pc \in { "parsed", "hashed" } =>
          /\ \A i \in DOMAIN parsed.tempos : parsed.tempos[i].millibeatsPerMinute # 0
          /\ \A i \in DOMAIN parsed.timeSignatures : parsed.timeSignatures[i].numerator > 0

\* What the .chart parser does.
C16_ZeroMarkersRejectedInChart ==
    format = "chart" => C16_ZeroMarkersRejected

-----------------------------------------------------------------------------
(* Errors of parseNotesFromMidi and scanChart                              *)

FailsHeaderChecks ==
    \/ midiFile.header.format # 1
    \/ midiFile.header.smpte
    \/ midiFile.tracks = 0

\* C17: parseNotesFromMidi fails exactly when the header format is not 1, the
\* timing is SMPTE, or the file has zero tracks; a decoded file that passes
\* these three checks is parsed without an exception, whatever events (SysEx
\* events with any difficulty, type and on/off byte among them) it holds.
C17_MidiFailsExactlyOnHeaderChecks ==
    (format = "mid" /\ pc \in { "error", "parsed", "hashed" }) =>
        ((pc = "error") <=> FailsHeaderChecks)

\* What parseNotesFromMidi does: it fails on the three checks, and never on
\* a file whose SysEx events name the difficulties 0..3 or 0xff only.
C17_MidiFailsOnHeaderChecks ==
    (format = "mid" /\ pc \in { "error", "parsed", "hashed" }) =>
        /\ FailsHeaderChecks => pc = "error"
        /\ (\A i \in DOMAIN midiFile.sysEx : midiFile.sysEx[i].difficulty \in (0..3) \cup { 255 })
              => ((pc = "error") <=> FailsHeaderChecks)

\* The chart file of the folder was read and its parser threw.
ChartFileThrows ==
    /\ \E i \in DOMAIN fileNames : fileNames[i].ext \in { "chart", "mid" }
    /\ parseError # ""

IsBadChart(issue) == issue.folderIssue = "badChart"

-----------------------------------------------------------------------------
(* Normalising twice                                                       *)

NoteFields == { "tick", "length", "type", "flags" }

NoteGroupsOf(groups) == [ g \in DOMAIN groups |-> Project(groups[g], NoteFields) ]

\* The note groups that chord snapping and the note overlap repair make of
\* the notes of a parsed track.
SnappedAndRepairedAgain(notes) ==
    sortAndFixInvalidNoteOverlaps(
        snapChords(GroupByTick(notes), iniChartModifiers.chord_snap_threshold, instrument))

\* The same after the sustain cutoff.
NormalizedAgain(track) ==
    SnappedAndRepairedAgain(
        trimSustains(NotesOf(track), iniChartModifiers.sustain_cutoff_threshold,
                     chartTicksPerBeat, format))

PhrasesRepairedAgain(track) ==
    /\ Project(sortAndFixInvalidEventOverlaps(track.starPowerSections), { "tick", "length" })
          = Project(track.starPowerSections, { "tick", "length" })
    /\ Project(sortAndFixInvalidEventOverlaps(track.soloSections), { "tick", "length" })
          = Project(track.soloSections, { "tick", "length" })

\* C19: normalization is idempotent: the sustain cutoff, chord snapping, the
\* note overlap repair and the phrase overlap repair run again, with the same
\* modifiers, on the note groups and phrase tables of a parsed track change no
\* tick, no length, no flag and no grouping.
C19_NormalizationIdempotent ==
    pc = "parsed" =>
        \A track \in ParsedTracks :
            /\ NoteGroupsOf(NormalizedAgain(track)) = NoteGroupsOf(track.noteEventGroups)
            /\ PhrasesRepairedAgain(track)

\* What holds of the code: chord snapping and the two overlap repairs run
\* again change nothing.
C19_SnapAndRepairIdempotent ==
    pc = "parsed" =>
        \A track \in ParsedTracks :
            /\ NoteGroupsOf(SnappedAndRepairedAgain(NotesOf(track)))
                  = NoteGroupsOf(track.noteEventGroups)
            /\ PhrasesRepairedAgain(track)

-----------------------------------------------------------------------------
(* Misaligned time signatures                                              *)

\* The time signatures of the chart that scanChart parsed.
ScannedTimeSignatures ==
    parseChartFile(RawChartOfFile, format, iniChartModifiers).timeSignatures

\* Ticks are counted in units of 1 / BarUnit of a tick, so that every bar of
\* the chart is a whole number of units long.
BarUnit ==
    LET exps == { ScannedTimeSignatures[i].denominatorExp : i \in DOMAIN ScannedTimeSignatures }
    IN  2 ^ (CHOOSE e \in exps : \A other \in exps : other <= e)

\* ticksPerBeat * 4 * numerator / denominator, in units
BarUnits(marker) ==
    chartTicksPerBeat * 4 * marker.numerator * (BarUnit \div (2 ^ marker.denominatorExp))

\* The running tick after it advanced in whole bars until it reached or
\* passed the target.
RECURSIVE NextBarAtOrAfter(_, _, _)
NextBarAtOrAfter(nextBar, bar, target) ==
    IF nextBar >= target \/ bar <= 0 THEN nextBar
    ELSE NextBarAtOrAfter(nextBar + bar, bar, target)

\* The markers from the i-th on whose tick differs from the running
\* next-bar tick; `active` is the last marker that was not flagged (0 when
\* there is none yet).
RECURSIVE FlaggedMarkersFrom(_, _, _, _)
FlaggedMarkersFrom(markers, i, nextBar, active) ==
    IF i > Len(markers) THEN <<>>
    ELSE LET target == markers[i].tick * BarUnit
             reached == IF active = 0 THEN nextBar
                        ELSE NextBarAtOrAfter(nextBar, BarUnits(markers[active]), target)
         IN  IF reached # target
             THEN << i >> \o FlaggedMarkersFrom(markers, i + 1, reached, active)
             ELSE FlaggedMarkersFrom(markers, i + 1, reached, i)

FlaggedMarkers == FlaggedMarkersFrom(ScannedTimeSignatures, 1, 0, 0)

MisalignedIssues ==
    SelectSeq(scan.notesData[1].chartIssues,
              LAMBDA issue : issue.noteIssue = "misalignedTimeSignature")

\* The file of the example: resolution 480, a 4/4 marker at tick 0 and a
\* marker at tick 1.
IsBarExample ==
    /\ chartTicksPerBeat = 480
    /\ Len(syncTimeSignatures) = 2
    /\ syncTimeSignatures[1] = [tick |-> 0, numerator |-> 4, denominatorExp |-> 2]
    /\ syncTimeSignatures[2].tick = 1

\* C20: the misalignedTimeSignature issues that a scan reports are, in
\* order, the time signature markers whose tick differs from the running
\* next-bar tick: the running tick starts at 0, a flagged marker never
\* becomes the active signature, and before each marker the running tick
\* advances in whole bars of the active signature until it reaches or passes
\* the marker. Each issue carries the msTime of its marker. With resolution
\* 480, a 4/4 marker at tick 0 and a marker at tick 1, there is exactly one
\* issue, and it is the one of the marker at tick 1.
C20_MisalignedTimeSignaturesFlagged ==
    (pc = "scanned" /\ scan.notesData # Null) =>
        /\ Len(MisalignedIssues) = Len(FlaggedMarkers)
        /\ \A k \in DOMAIN FlaggedMarkers :
              /\ MisalignedIssues[k].msTime = ScannedTimeSignatures[FlaggedMarkers[k]].msTime
              /\ MisalignedIssues[k].instrument = "null"
              /\ MisalignedIssues[k].difficulty = "null"
        /\ IsBarExample =>
              /\ Len(MisalignedIssues) = 1
              /\ ScannedTimeSignatures[2].tick = 1
              /\ MisalignedIssues[1].msTime = ScannedTimeSignatures[2].msTime

\* A scan that flagged a marker, skipped it, and found a later marker
\* aligned that the skipped one would have misaligned: 4/8 at tick 0, 4/4
\* at tick 1, a marker at tick 4.
C20_Witness ==
    /\ pc = "scanned"
    /\ scan.notesData # Null
    /\ chartTicksPerBeat = 1
    /\ Len(syncTimeSignatures) = 3
    /\ syncTimeSignatures[1] = [tick |-> 0, numerator |-> 4, denominatorExp |-> 3]
    /\ syncTimeSignatures[2] = [tick |-> 1, numerator |-> 4, denominatorExp |-> 2]
    /\ syncTimeSignatures[3].tick = 4
    /\ FlaggedMarkers = << 2 >>
    /\ Len(MisalignedIssues) = 1

\* The scan of the example reported its one issue.
C20_ExampleScanned ==
    pc = "scanned" /\ IsBarExample /\ Len(MisalignedIssues) = 1

-----------------------------------------------------------------------------
(* Notes a difficulty forbids                                              *)

\* The tracks of the chart that scanChart parsed.
ScannedTracks == parseChartFile(RawChartOfFile, format, iniChartModifiers).trackData

\* The msTimes of the difficultyForbiddenNote issues of the scan for a track,
\* in the order of the report.
ForbiddenTimes(track) ==
    LET issues == SelectSeq(scan.notesData[1].chartIssues,
                            LAMBDA issue : /\ issue.noteIssue = "difficultyForbiddenNote"
                                           /\ issue.instrument = track.instrument
                                           /\ issue.difficulty = track.difficulty)
    IN  [ k \in DOMAIN issues |-> issues[k].msTime ]

GroupTimes(groups) == [ g \in DOMAIN groups |-> groups[g][1].msTime ]

IsWhite(note) == note.type \in { noteTypes.white1, noteTypes.white2, noteTypes.white3 }

IsBlack(note) == note.type \in { noteTypes.black1, noteTypes.black2, noteTypes.black3 }

MixesWhiteAndBlack(noteGroup) ==
    /\ \E n \in DOMAIN noteGroup : IsWhite(noteGroup[n])
    /\ \E n \in DOMAIN noteGroup : IsBlack(noteGroup[n])

IsHardSixFret(track) ==
    /\ getInstrumentType(track.instrument) = instrumentTypes.sixFret
    /\ track.difficulty = "hard"

\* C21: on a hard 6-fret track the note groups reported as
\* difficultyForbiddenNote are exactly the three-note groups that mix white
\* and black notes: three-note groups of one colour and groups of one or two
\* notes are not reported.
C21_HardSixFretMixedChordsForbidden ==
    (pc = "scanned" /\ scan.notesData # Null) =>
        \A t \in DOMAIN ScannedTracks :
            IsHardSixFret(ScannedTracks[t]) =>
                ForbiddenTimes(ScannedTracks[t]) =
                    GroupTimes(SelectSeq(ScannedTracks[t].noteEventGroups,
                                         LAMBDA noteGroup : /\ Len(noteGroup) = 3
                                                            /\ MixesWhiteAndBlack(noteGroup)))

\* What the code reports on a hard 6-fret track: every group of three notes,
\* whatever its colours, and no group of one or two notes.
C21_HardSixFretThreeNoteChordsForbidden ==
    (pc = "scanned" /\ scan.notesData # Null) =>
        \A t \in DOMAIN ScannedTracks :
            IsHardSixFret(ScannedTracks[t]) =>
                ForbiddenTimes(ScannedTracks[t]) =
                    GroupTimes(SelectSeq(ScannedTracks[t].noteEventGroups,
                                         LAMBDA noteGroup : Len(noteGroup) = 3))

\* A scanned hard 6-fret track with a group of three white notes that is
\* reported.
C21_ThreeWhiteNotesReported ==
    /\ pc = "scanned"
    /\ scan.notesData # Null
    /\ \E t \in DOMAIN ScannedTracks :
          /\ IsHardSixFret(ScannedTracks[t])
          /\ \E g \in DOMAIN ScannedTracks[t].noteEventGroups :
                LET noteGroup == ScannedTracks[t].noteEventGroups[g]
                IN  /\ Len(noteGroup) = 3
                    /\ \A n \in DOMAIN noteGroup : IsWhite(noteGroup[n])
                    /\ \E k \in DOMAIN ForbiddenTimes(ScannedTracks[t]) :
                          ForbiddenTimes(ScannedTracks[t])[k] = noteGroup[1].msTime

-----------------------------------------------------------------------------
(* Start and end events of a .mid track                                    *)

\* The event ends of a difficulty of the first instrument track of the
\* file, as getTrackEvents receives them.
EventEndsOfTrack(difficulty) ==
    distributeInstrumentEvents(
        getTrackEventEnds(midiTracks[1].trackEvents,
                          getInstrumentType(instrumentNameMap(midiTracks[1].trackName))))[difficulty]

\* The events getTrackEvents returns for the difficulty.
ConnectedEvents(difficulty) ==
    getTrackEvents([ d \in Range(difficulties) |-> EventEndsOfTrack(d) ])[difficulty]

SameKey(a, b) == a.type = b.type /\ a.channel = b.channel

\* Starts minus ends among the event ends of the type and channel of
\* ends[i] that lie after index i and before index j.
Depth(ends, i, j) ==
    Cardinality({ k \in (i + 1)..(j - 1) : SameKey(ends[k], ends[i]) /\ ends[k].isStart })
    - Cardinality({ k \in (i + 1)..(j - 1) : SameKey(ends[k], ends[i]) /\ ~ends[k].isStart })

\* The end at index j closes the start at index i: it is the first end of
\* the type and channel after i that finds every later start already closed.
Closes(ends, i, j) ==
    /\ i < j
    /\ ends[i].isStart
    /\ ~ends[j].isStart
    /\ SameKey(ends[i], ends[j])
    /\ Depth(ends, i, j) = 0
    /\ \A m \in (i + 1)..(j - 1) : Depth(ends, i, m + 1) >= 0

IsClosed(ends, i) == \E j \in DOMAIN ends : Closes(ends, i, j)

\* The starts that are closed, in their order, each with the length up to
\* the end that closes it.
PairedEvents(ends) ==
    LET closed == SelectSeq([ i \in DOMAIN ends |-> i ], LAMBDA i : IsClosed(ends, i))
    IN  [ k \in DOMAIN closed |->
            LET start == closed[k]
                end == CHOOSE j \in DOMAIN ends : Closes(ends, start, j)
            IN  [ tick |-> ends[start].tick, length |-> ends[end].tick - ends[start].tick,
                  type |-> ends[start].type, velocity |-> ends[start].velocity,
                  channel |-> ends[start].channel ] ]

\* C22: getTrackEvents pairs, per difficulty and event type, every end with
\* the most recent start on its channel that is still open and gives that
\* start the length endTick - startTick, which is never negative; an end
\* without an open start on its channel closes nothing, a start is closed
\* at most once, and starts that stay open are not returned.
C22_EndsCloseLatestOpenStartOnChannel ==
    midiTracks # <<>> =>
        \A d \in DOMAIN difficulties :
            LET ends == EventEndsOfTrack(difficulties[d])
                events == ConnectedEvents(difficulties[d])
            IN  /\ events = PairedEvents(ends)
                /\ \A k \in DOMAIN events : events[k].length >= 0
                /\ \A i \in DOMAIN ends :
                      Cardinality({ j \in DOMAIN ends : Closes(ends, i, j) }) <= 1
                /\ \A j \in DOMAIN ends :
                      Cardinality({ i \in DOMAIN ends : Closes(ends, i, j) }) <= 1

\* A parsed track where a note-off found two open note-ons of its pitch and
\* closed the earlier one, which is on its channel, and where another
\* note-on stayed open.
C22_Witness ==
    /\ pc = "parsed"
    /\ midiTracks # <<>>
    /\ LET ends == EventEndsOfTrack("expert")
       IN  /\ \E i, m, j \in DOMAIN ends :
                 /\ i < m /\ m < j
                 /\ ends[m].isStart
                 /\ ends[m].type = ends[i].type
                 /\ ends[m].channel # ends[i].channel
                 /\ Closes(ends, i, j)
                 /\ ~IsClosed(ends, m)
           /\ Len(ConnectedEvents("expert")) = 1

-----------------------------------------------------------------------------
(* Sustained modifiers of a .mid track                                     *)

TrackInstrumentType == getInstrumentType(instrumentNameMap(midiTracks[1].trackName))

\* The events of the first instrument track that splitMidiModifierSustains
\* receives, and those it returns.
UnsplitEvents ==
    getTrackEvents(distributeInstrumentEvents(
        getTrackEventEnds(midiTracks[1].trackEvents, TrackInstrumentType)))

SplitEvents == splitMidiModifierSustains(UnsplitEvents, TrackInstrumentType)

IsSustainedModifier(event) == event.type \in modifierSustains(TrackInstrumentType)

IsPlayableNote(event) == event.type \in modifiableNotes(TrackInstrumentType)

\* The << tick, type >> of the copies a difficulty is due when a modifier
\* covers the ticks t that Covers(modifier, t) tells.
DueCopies(events, Covers(_, _)) ==
    UNION { { << events[n].tick, events[m].type >> :
                n \in { n \in DOMAIN events : /\ IsPlayableNote(events[n])
                                              /\ Covers(events[m], events[n].tick) } } :
            m \in { m \in DOMAIN events : IsSustainedModifier(events[m]) } }

\* splitMidiModifierSustains returned, for every difficulty with playable
\* notes, exactly one zero-length copy for every due << tick, type >>, no
\* other event of a sustained modifier type, and every other event as it
\* was.
SplitInto(Covers(_, _)) ==
    LET unsplit == UnsplitEvents
        result == splitMidiModifierSustains(unsplit, TrackInstrumentType)
    IN  \A d \in DOMAIN difficulties :
            LET events == unsplit[difficulties[d]]
                split == result[difficulties[d]]
                copies == SelectSeq(split, IsSustainedModifier)
            IN  IF \E n \in DOMAIN events : IsPlayableNote(events[n])
                THEN /\ { << copies[k].tick, copies[k].type >> : k \in DOMAIN copies }
                            = DueCopies(events, Covers)
                     /\ \A k \in DOMAIN copies : copies[k].length = 0
                     /\ \A k, l \in DOMAIN copies :
                           (copies[k].tick = copies[l].tick /\ copies[k].type = copies[l].type)
                               => k = l
                     /\ SelectSeq(split, LAMBDA e : ~IsSustainedModifier(e))
                            = SelectSeq(events, LAMBDA e : ~IsSustainedModifier(e))
                ELSE split = <<>>

\* start <= t < end
CoversHalfOpen(modifier, t) == modifier.tick <= t /\ t < modifier.tick + modifier.length

\* start <= t < end, and a modifier without length covers its own tick
CoversHalfOpenOrOwnTick(modifier, t) ==
    \/ CoversHalfOpen(modifier, t)
    \/ modifier.length = 0 /\ t = modifier.tick

-----------------------------------------------------------------------------
(* Disco flip                                                              *)

\* The disco flip modifiers of a raw track that lie at or before a tick.
DiscoFlipsUpTo(track, tick) ==
    { e \in Range(track.trackEvents) : e.type \in discoFlipEventTypes /\ e.tick <= tick }

\* What the latest tick at or before `tick` that holds a disco flip modifier
\* selects: the least of its modifiers; discoFlipOff when there is no such
\* tick.
SelectedDiscoFlip(track, tick) ==
    LET flips == DiscoFlipsUpTo(track, tick)
        latest == CHOOSE e \in flips : \A o \in flips : o.tick <= e.tick
        onLatest == { e.type : e \in { o \in flips : o.tick = latest.tick } }
    IN  IF flips = {} THEN eventTypes.discoFlipOff
        ELSE CHOOSE type \in onLatest : \A other \in onLatest : type <= other

\* The note groups of a raw track after modifier resolution, before chord
\* snapping.
ResolvedGroupsOf(track) ==
    ResolvedNoteGroups(track, DrumTypeOf(RawChartOfFile.trackData, iniChartModifiers),
                       iniChartModifiers, chartTicksPerBeat, format)

\* C24: in a drum track, before chord snapping, a red or yellow note carries
\* disco iff the latest tick at or before its own that holds a disco flip
\* modifier selects discoFlipOn, discoNoflip iff it selects discoNoFlipOn,
\* and neither for discoFlipOff or when there is no such tick; a tick with
\* several disco flip modifiers selects the least of them.
C24_DiscoFlagFollowsLatestDiscoFlip ==
    pc = "parsed" =>
        \A track \in Range(RawChartOfFile.trackData) :
            track.instrument = "drums" =>
                \A noteGroup \in Range(ResolvedGroupsOf(track)) :
                    \A note \in Range(noteGroup) :
                        note.type \in { noteTypes.redDrum, noteTypes.yellowDrum } =>
                            LET selected == SelectedDiscoFlip(track, note.tick)
                            IN  /\ HasBit(note.flags, noteFlags.disco)
                                       <=> selected = eventTypes.discoFlipOn
                                /\ HasBit(note.flags, noteFlags.discoNoflip)
                                       <=> selected = eventTypes.discoNoFlipOn

\* A parsed drum track where a tick without notes holds discoFlipOn and
\* discoNoFlipOn, and a red note on a later tick carries disco.
C24_Witness ==
    /\ pc = "parsed"
    /\ \E track \in Range(RawChartOfFile.trackData) :
          /\ track.instrument = "drums"
          /\ \E on, noflip \in Range(track.trackEvents) :
                /\ on.type = eventTypes.discoFlipOn
                /\ noflip.type = eventTypes.discoNoFlipOn
                /\ on.tick = noflip.tick
                /\ \A e \in Range(track.trackEvents) : e.tick = on.tick => ~isDrumNote(e.type)
                /\ \E noteGroup \in Range(ResolvedGroupsOf(track)) :
                      \E note \in Range(noteGroup) :
                          /\ note.type = noteTypes.redDrum
                          /\ note.tick > on.tick
                          /\ DiscoFlipsUpTo(track, note.tick) = { on, noflip }
                          /\ HasBit(note.flags, noteFlags.disco)

-----------------------------------------------------------------------------
(* Drum dynamics of a .mid track                                           *)

\* The difficulty and the note type of the MIDI notes the tracks hold.
ChartedPitches ==
    { [ noteNumber |-> 97, difficulty |-> "expert", type |-> noteTypes.redDrum ],
      [ noteNumber |-> 85, difficulty |-> "hard", type |-> noteTypes.redDrum ],
      [ noteNumber |-> 96, difficulty |-> "expert", type |-> noteTypes.green ] }

\* The note-on events of the first instrument track of the file.
StruckNotes ==
    { e \in Range(midiTracks[1].trackEvents) :
        /\ e.type = "noteOn"
        /\ \E p \in ChartedPitches : p.noteNumber = e.noteNumber }

HasDynamicsText ==
    \E e \in Range(midiTracks[1].trackEvents) :
        /\ e.type = "text"
        /\ e.text \in { "ENABLE_CHART_DYNAMICS", "[ENABLE_CHART_DYNAMICS]" }

\* The notes of the parsed chart that the note-on event became.
ParsedNotesOf(struck) ==
    LET pitch == CHOOSE p \in ChartedPitches : p.noteNumber = struck.noteNumber
    IN  { note \in UNION { Range(NotesOf(track)) :
                             track \in { t \in ParsedTracks : t.difficulty = pitch.difficulty } } :
            note.tick = struck.deltaTime /\ note.type = pitch.type }

\* Every struck note is in the parsed chart, with a flag iff Flagged tells
\* so for its struck note.
DynamicsFlags(velocity, flag, Flagged(_)) ==
    \A struck \in StruckNotes :
        /\ ParsedNotesOf(struck) # {}
        /\ struck.velocity = velocity =>
              \A note \in ParsedNotesOf(struck) : HasBit(note.flags, flag) <=> Flagged(struck)

IsDrumsFile == instrumentNameMap(midiTracks[1].trackName) = "drums"

NoDynamics ==
    \A struck \in StruckNotes : \A note \in ParsedNotesOf(struck) :
        ~HasBit(note.flags, noteFlags.accent) /\ ~HasBit(note.flags, noteFlags.ghost)

\* C25: with the ENABLE_CHART_DYNAMICS text event in a .mid drum track,
\* every drum note of velocity 127 has the accent flag and every drum note
\* of velocity 1 the ghost flag, in every charted difficulty and wherever
\* the note lies relative to the text event; without the text event no note
\* has accent or ghost, and fret notes never have.
C25_DynamicsForAllNotesOfTheTrack ==
    (pc = "parsed" /\ midiTracks # <<>>) =>
        IF IsDrumsFile /\ HasDynamicsText
        THEN /\ DynamicsFlags(127, noteFlags.accent, LAMBDA struck : TRUE)
             /\ DynamicsFlags(1, noteFlags.ghost, LAMBDA struck : TRUE)
        ELSE NoDynamics

PitchDifficulty(struck) ==
    (CHOOSE p \in ChartedPitches : p.noteNumber = struck.noteNumber).difficulty

\* The first of the difficulties that holds a note.
FirstCharted ==
    difficulties[CHOOSE d \in DOMAIN difficulties :
                    /\ \E struck \in StruckNotes : PitchDifficulty(struck) = difficulties[d]
                    /\ \A c \in 1..(d - 1) :
                          ~\E struck \in StruckNotes : PitchDifficulty(struck) = difficulties[c]]

\* The note lies before the text event in the first charted difficulty.
BeforeDynamicsText(struck) ==
    /\ PitchDifficulty(struck) = FirstCharted
    /\ \A e \in Range(midiTracks[1].trackEvents) :
          e.type = "text" => struck.deltaTime < e.deltaTime

\* What the code does: the text event switches the dynamics on for the notes
\* from its tick on in the first charted difficulty and for every note of
\* the difficulties after it.
C25_DynamicsFromTheTextEventOn ==
    (pc = "parsed" /\ midiTracks # <<>>) =>
        IF IsDrumsFile /\ HasDynamicsText
        THEN /\ DynamicsFlags(127, noteFlags.accent, LAMBDA struck : ~BeforeDynamicsText(struck))
             /\ DynamicsFlags(1, noteFlags.ghost, LAMBDA struck : ~BeforeDynamicsText(struck))
        ELSE NoDynamics

\* A parsed drum track with the text event on tick 1 whose expert note of
\* velocity 127 on tick 0 has no accent flag, while the hard note of
\* velocity 127 on tick 0 has it.
C25_EarlierExpertNoteWithoutAccent ==
    /\ pc = "parsed"
    /\ midiTracks # <<>>
    /\ IsDrumsFile
    /\ HasDynamicsText
    /\ \E expertNote, hardNote \in StruckNotes :
          /\ expertNote.noteNumber = 97 /\ hardNote.noteNumber = 85
          /\ expertNote.velocity = 127 /\ hardNote.velocity = 127
          /\ expertNote.deltaTime = 0 /\ hardNote.deltaTime = 0
          /\ \A note \in ParsedNotesOf(expertNote) : ~HasBit(note.flags, noteFlags.accent)
          /\ \A note \in ParsedNotesOf(hardNote) : HasBit(note.flags, noteFlags.accent)

-----------------------------------------------------------------------------
(* Solo sections of a .chart track                                         *)

\* The events of the .chart track in the order of their ticks, as
\* mergeSoloEvents receives them.
OrderedLines == OrderByTick(lines)

\* Solo starts minus solo ends among the events after index i and before
\* index j.
SoloDepth(events, i, j) ==
    Cardinality({ k \in (i + 1)..(j - 1) : events[k].type = eventTypes.soloSectionStart })
    - Cardinality({ k \in (i + 1)..(j - 1) : events[k].type = eventTypes.soloSectionEnd })

\* The soloend at index j is paired with the solo start at index i: the
\* start is the most recent one that the soloends before j left unpaired.
SoloPaired(events, i, j) ==
    /\ i < j
    /\ events[i].type = eventTypes.soloSectionStart
    /\ events[j].type = eventTypes.soloSectionEnd
    /\ SoloDepth(events, i, j) = 0
    /\ \A m \in (i + 1)..(j - 1) : SoloDepth(events, i, m + 1) >= 0

\* The solo phrases of the paired solo starts, in the order of the starts.
PairedSolos(events) ==
    LET starts == SelectSeq([ i \in DOMAIN events |-> i ],
                            LAMBDA i : \E j \in DOMAIN events : SoloPaired(events, i, j))
    IN  [ k \in DOMAIN starts |->
            LET start == starts[k]
                end == CHOOSE j \in DOMAIN events : SoloPaired(events, start, j)
            IN  [ tick |-> events[start].tick,
                  length |-> events[end].tick - events[start].tick + 1,
                  type |-> eventTypes.soloSection ] ]

\* C26: in a .chart track, after ordering by tick, every soloend is paired
\* with the most recent solo start that is still unpaired and gives one solo
\* phrase with the tick of the start and the length endTick - startTick + 1;
\* unpaired solo starts and soloends give no phrase, and no solo start or
\* end marker remains among the track events.
C26_SoloEndsPairWithLatestOpenSoloStart ==
    (pc = "parsed" /\ format = "chart") =>
        \A t \in DOMAIN RawChartOfFile.trackData :
            LET track == RawChartOfFile.trackData[t]
            IN  /\ track.soloSections = PairedSolos(OrderedLines)
                /\ \A e \in Range(track.trackEvents) :
                      e.type \notin { eventTypes.soloSectionStart, eventTypes.soloSectionEnd,
                                      eventTypes.soloSection }
                /\ \A i, j, k \in DOMAIN OrderedLines :
                      (SoloPaired(OrderedLines, i, j) /\ SoloPaired(OrderedLines, k, j)) => i = k

\* A parsed .chart track with two solo starts and one soloend after them:
\* the later start is paired, the solo from tick 1 to tick 2 is 2 ticks long,
\* and the earlier start gives no phrase.
C26_Witness ==
    /\ pc = "parsed"
    /\ format = "chart"
    /\ \E i, k, j \in DOMAIN OrderedLines :
          /\ i < k /\ k < j
          /\ OrderedLines[i].type = eventTypes.soloSectionStart
          /\ OrderedLines[i].tick = 0
          /\ OrderedLines[k].type = eventTypes.soloSectionStart
          /\ OrderedLines[k].tick = 1
          /\ OrderedLines[j].type = eventTypes.soloSectionEnd
          /\ OrderedLines[j].tick = 2
    /\ RawChartOfFile.trackData[1].soloSections
          = << [ tick |-> 1, length |-> 2, type |-> eventTypes.soloSection ] >>

-----------------------------------------------------------------------------
(* Coverage of the repaired sustains and phrases                           *)

\* The ticks covered by the sustains [tick, tick + length) of `items`.
Covered(items) ==
    UNION { items[i].tick..(items[i].tick + items[i].length - 1) : i \in DOMAIN items }

OfNoteType(notes, type) == SelectSeq(notes, LAMBDA note : note.type = type)

\* The note groups of a raw track as sortAndFixInvalidNoteOverlaps receives
\* them: modifiers resolved and chords snapped.
SnappedGroupsOf(track) ==
    snapChords(ResolvedGroupsOf(track), iniChartModifiers.chord_snap_threshold,
               track.instrument)

\* C27: overlap repair never shrinks coverage: for every note type, the
\* sustains [tick, tick + length) of that type cover the same ticks before
\* and after sortAndFixInvalidNoteOverlaps, and so do the star power phrases
\* and the solos before and after sortAndFixInvalidEventOverlaps.
C27_OverlapRepairKeepsCoverage ==
    pc = "parsed" =>
        \A t \in DOMAIN parsed.trackData :
            LET rawTrack == RawChartOfFile.trackData[t]
                track == parsed.trackData[t]
                before == Flatten(SnappedGroupsOf(rawTrack))
                after == Flatten(track.noteEventGroups)
            IN  /\ \A type \in Range(noteTypes) :
                      Covered(OfNoteType(after, type)) = Covered(OfNoteType(before, type))
                /\ Covered(track.starPowerSections) = Covered(rawTrack.starPowerSections)
                /\ Covered(track.soloSections) = Covered(rawTrack.soloSections)

\* A parsed track whose first green sustain ran over two later green notes:
\* it was cut at the second note, and the later notes were extended so that
\* ticks 0 to 2 are still covered.
C27_Witness ==
    /\ pc = "parsed"
    /\ format = "chart"
    /\ lines = << [ tick |-> 0, length |-> 3, type |-> eventTypes.green ],
                  [ tick |-> 1, length |-> 0, type |-> eventTypes.green ],
                  [ tick |-> 2, length |-> 0, type |-> eventTypes.green ] >>
    /\ LET notes == Flatten(parsed.trackData[1].noteEventGroups)
       IN  /\ Len(notes) = 3
           /\ \A i \in 1..3 : notes[i].tick = i - 1 /\ notes[i].length = 1

\* A parsed track whose overlapping star power phrases were repaired: the
\* phrase of ticks 0 to 2 was cut at tick 1 and the phrase on tick 1 extended.
C27_PhraseWitness ==
    /\ pc = "parsed"
    /\ Len(RawChartOfFile.trackData[1].starPowerSections) = 2
    /\ LET phrases == parsed.trackData[1].starPowerSections
       IN  /\ Len(phrases) = 2
           /\ phrases[1].tick = 0 /\ phrases[1].length = 1
           /\ phrases[2].tick = 1 /\ phrases[2].length = 2
           /\ RawChartOfFile.trackData[1].starPowerSections[2].length < 2

-----------------------------------------------------------------------------
(* Termination of findChartIssues                                          *)

\* The misaligned-time-signature walk of findChartIssues on the returned
\* chart has to advance by bars of length 0 and never ends.
WalkHangs == misalignedTimeSignature(parsed).hangs

\* C28: findChartIssues terminates for every chart that parseChartFile
\* returns, in either format: the misaligned-time-signature walk reaches the
\* end of the marker list.
C28_FindChartIssuesTerminates ==
    pc = "parsed" => ~WalkHangs

\* The walk ends on every returned chart whose time signature numerators are
\* all positive, which are all the charts of a .chart file.
C28_TerminatesWithPositiveNumerators ==
    pc = "parsed" =>
        /\ (\A i \in DOMAIN parsed.timeSignatures : parsed.timeSignatures[i].numerator > 0)
              => ~WalkHangs
        /\ format = "chart" => ~WalkHangs

\* A chart returned for a .mid file with a time signature of numerator 0 on
\* tick 0 and a later marker: the walk never reaches the later marker.
C28_ZeroNumeratorWalkHangs ==
    /\ pc = "parsed"
    /\ format = "mid"
    /\ Len(parsed.timeSignatures) = 2
    /\ parsed.timeSignatures[1].tick = 0
    /\ parsed.timeSignatures[1].numerator = 0
    /\ parsed.timeSignatures[2].tick > 0
    /\ WalkHangs

-----------------------------------------------------------------------------
(* The tracks of a chart by instrument and difficulty                      *)

\* No two tracks of trackData have the same instrument and difficulty.
UniqueTracks(trackData) ==
    \A s, t \in DOMAIN trackData :
        (trackData[s].instrument = trackData[t].instrument
         /\ trackData[s].difficulty = trackData[t].difficulty) => s = t

\* The chart scanChart parsed.
ScannedChart == parseChartFile(RawChartOfFile, format, iniChartModifiers)

\* C29: trackData of a parsed chart never holds two tracks with the same
\* (instrument, difficulty), also for a .mid file with several tracks whose
\* names map to the same instrument; hence calculateTrackHash(parsed,
\* t.instrument, t.difficulty) serializes exactly the track t that the
\* caller enumerated.
C29_TracksUniqueByInstrumentAndDifficulty ==
    /\ pc \in { "parsed", "hashed" } => UniqueTracks(parsed.trackData)
    /\ (pc = "scanned" /\ scan.notesData # Null) =>
          \A t \in DOMAIN ScannedTracks :
              scan.notesData[1].trackHashes[t]
                  = calculateTrackHash(ScannedChart, ScannedTracks[t])

\* The instrument tracks of the .mid file, in file order.
InstrumentTracks == SelectSeq(midiTracks, LAMBDA t : instrumentNameMap(t.trackName) # "")

\* The tracks of a chart are unique when no two instrument tracks of the
\* .mid file map to the same instrument, and each track hash of the scan is
\* the serialization of the first track with the instrument and difficulty.
C29_UniqueForDistinctInstruments ==
    /\ pc \in { "parsed", "hashed" } =>
          ((\A s, t \in DOMAIN InstrumentTracks :
                instrumentNameMap(InstrumentTracks[s].trackName)
                    = instrumentNameMap(InstrumentTracks[t].trackName) => s = t)
           => UniqueTracks(parsed.trackData))
    /\ (pc = "scanned" /\ scan.notesData # Null) =>
          \A t \in DOMAIN ScannedTracks :
              \E s \in 1..t :
                  /\ ScannedTracks[s].instrument = ScannedTracks[t].instrument
                  /\ ScannedTracks[s].difficulty = ScannedTracks[t].difficulty
                  /\ \A r \in 1..(s - 1) :
                        ~(/\ ScannedTracks[r].instrument = ScannedTracks[t].instrument
                          /\ ScannedTracks[r].difficulty = ScannedTracks[t].difficulty)
                  /\ scan.notesData[1].trackHashes[t]
                        = calculateTrackHash(ScannedChart, ScannedTracks[s])

\* The scan of a .mid file with the tracks T1 GEMS and PART GUITAR, both
\* charted on expert with different notes: the chart holds two expert guitar
\* tracks, and the second track hash is the serialization of the first track.
C29_TwoExpertGuitarTracks ==
    /\ pc = "scanned"
    /\ scan.notesData # Null
    /\ Len(midiTracks) = 2
    /\ midiTracks[1].trackName = "T1 GEMS"
    /\ midiTracks[2].trackName = "PART GUITAR"
    /\ Len(ScannedTracks) = 2
    /\ \A t \in 1..2 : ScannedTracks[t].instrument = "guitar"
                       /\ ScannedTracks[t].difficulty = "expert"
    /\ ScannedTracks[1].noteEventGroups # ScannedTracks[2].noteEventGroups
    /\ scan.notesData[1].trackHashes[2] = scan.notesData[1].trackHashes[1]
    /\ scan.notesData[1].trackHashes[2] # calculateTrackHash(ScannedChart, ScannedTracks[2])

-----------------------------------------------------------------------------
(* Flags of the notes of a returned track                                  *)

\* How many of the bits are set in flags.
BitsSet(flags, bits) == Cardinality({ bit \in bits : HasBit(flags, bit) })

PickingBits == { noteFlags.strum, noteFlags.hopo, noteFlags.tap }

DrumBits ==
    { noteFlags.doubleKick, noteFlags.tom, noteFlags.cymbal, noteFlags.discoNoflip,
      noteFlags.disco, noteFlags.flam, noteFlags.ghost, noteFlags.accent }

WellFormedFretNote(note) ==
    /\ BitsSet(note.flags, PickingBits) = 1
    /\ BitsSet(note.flags, DrumBits) = 0

WellFormedDrumNote(note) ==
    /\ BitsSet(note.flags, PickingBits) = 0
    /\ BitsSet(note.flags, { noteFlags.tom, noteFlags.cymbal })
          = IF note.type = noteTypes.kick THEN 0 ELSE 1
    /\ BitsSet(note.flags, { noteFlags.disco, noteFlags.discoNoflip }) <= 1
    /\ BitsSet(note.flags, { noteFlags.accent, noteFlags.ghost }) <= 1
    /\ BitsSet(note.flags, { noteFlags.disco, noteFlags.discoNoflip }) > 0
          => note.type \in { noteTypes.redDrum, noteTypes.yellowDrum }

\* C30: every note of a returned track has well-formed flags, also after
\* chord snapping has merged groups: a fret note has exactly one of strum,
\* hopo and tap and no drum bit; a drum note has none of the three; a drum
\* note other than a kick has exactly one of tom and cymbal, a kick neither;
\* at most one of disco and discoNoflip and at most one of accent and ghost
\* is set; disco bits lie on red and yellow drum notes only.
C30_NoteFlagsWellFormed ==
    pc \in { "parsed", "hashed" } =>
        \A track \in ParsedTracks :
            \A note \in Range(NotesOf(track)) :
                IF track.instrument = "drums"
                THEN WellFormedDrumNote(note)
                ELSE WellFormedFretNote(note)

\* A parsed drum track whose yellow note of tick 1, charted under
\* discoNoflip, was merged into the group of the red note of tick 0, charted
\* under disco: both notes lie on tick 0 and carry disco and no discoNoflip.
C30_Witness ==
    /\ pc = "parsed"
    /\ instrument = "drums"
    /\ \E i, j, k, l \in DOMAIN lines :
          /\ lines[i] = [ tick |-> 0, length |-> 0, type |-> eventTypes.redDrum ]
          /\ lines[j] = [ tick |-> 0, length |-> 0, type |-> eventTypes.discoFlipOn ]
          /\ lines[k] = [ tick |-> 1, length |-> 0, type |-> eventTypes.yellowDrum ]
          /\ lines[l] = [ tick |-> 1, length |-> 0, type |-> eventTypes.discoNoFlipOn ]
    /\ Len(parsed.trackData[1].noteEventGroups) = 1
    /\ LET notes == parsed.trackData[1].noteEventGroups[1]
       IN  /\ { notes[n].type : n \in DOMAIN notes } = { noteTypes.redDrum, noteTypes.yellowDrum }
           /\ \A n \in DOMAIN notes :
                 /\ notes[n].tick = 0
                 /\ HasBit(notes[n].flags, noteFlags.disco)
                 /\ ~HasBit(notes[n].flags, noteFlags.discoNoflip)

\* A parsed fret track whose second group, forced to tap, was merged into
\* the first one and took its flags.
C30_FretWitness ==
    /\ pc = "parsed"
    /\ instrument = "guitar"
    /\ \E i \in DOMAIN lines : lines[i].type = eventTypes.forceTap
    /\ Len(parsed.trackData[1].noteEventGroups) = 1
    /\ \E n \in DOMAIN parsed.trackData[1].noteEventGroups[1] :
          parsed.trackData[1].noteEventGroups[1][n].tick = 0
          /\ \E i \in DOMAIN lines :
                lines[i].tick > 0 /\ isFretNote(lines[i].type)
    /\ \A n \in DOMAIN parsed.trackData[1].noteEventGroups[1] :
          ~HasBit(parsed.trackData[1].noteEventGroups[1][n].flags, noteFlags.tap)

====
